---- MODULE Spec2Model ----
(***************************************************************************)
(* Textile QC: the analyze request (app/routes.py), the analysis pipeline  *)
(* (app/pipeline/runner.py) and the scoring / decision function.           *)
(*                                                                         *)
(* Number representation (fixed point, exact for the values used):         *)
(*   scores and score thresholds   quarter points (100.0 is 400)           *)
(*   mean delta-E values           half units     (2.0 is 4, 3.5 is 7)     *)
(*   ssim                          hundredths     (0.96 is 96)             *)
(*   color_score_multiplier        whole numbers                           *)
(* A Python dict is a TLA+ record whose DOMAIN is the set of keys present. *)
(***************************************************************************)
EXTENDS Integers, Sequences, FiniteSets, TLC

VARIABLES
    pc,         \* position of the request in analyze / run_analysis_pipeline
    data,       \* analyze's local `data`: what request.get_json() returned
    settings,   \* the QCSettings object of the request
    results,    \* the results dict of the request
    files,      \* report files that exist in the output directory
    response,   \* the response analyze returned
    exc,        \* the exception in flight, "none" when there is none
    raised,     \* history: every exception raised while serving the request
    stages,     \* history: the pipeline and report stages entered, in order
    args,       \* the arguments of the call under study (the images, the
                \* inputs of a colour function), NoArgs when left open
    runs        \* history: the runs completed earlier in this process

vars == <<pc, data, settings, results, files, response, exc, raised, stages,
          args, runs>>

(* ------------------------------ bounds -------------------------------- *)

\* illuminant lists have at most MaxIlluminants names
MaxIlluminants == 3

\* the largest mean delta-E 2000 of a sample pair under one illuminant, in
\* tenths
MaxDeltaE == 8

\* metamerism indices given to assess_metamerism_risk range over
\* 0 .. MaxIndex, in tenths
MaxIndex == 40

\* the largest value of f(t) on the grid of the Lab round trip, in 87ths
MaxF == 90

\* arrays given to adapt_white_xyz have at most MaxPixels pixels
MaxPixels == 2

\* number of runs of the pipeline one process serves one after the other
MaxRuns == 3

\* mean delta-E values given to the scoring function range over 0 .. MaxDE
MaxDE == 2
\* connected-component pattern counts range over 0 .. MaxCount
MaxCount == 2
\* pattern_count_tolerance ranges over 0 .. MaxTolerance
MaxTolerance == 1

(* ------------------------- Python dict helpers ------------------------ *)

\* d.get(k, default)
Get(d, k, default) == IF k \in DOMAIN d THEN d[k] ELSE default

\* d[k] = v
Put(d, k, v) == [x \in (DOMAIN d) \cup {k} |-> IF x = k THEN v ELSE d[x]]

\* the empty dict {}
EmptyDict == [x \in {} |-> 0]

Max(a, b) == IF a >= b THEN a ELSE b

Abs(a) == IF a >= 0 THEN a ELSE 0 - a

(* ---------------------- scoring and final decision --------------------- *)

\* 100.0, the score of a unit that is disabled or has no metrics
FullScore == 400

\* results['pattern_metrics'].get('ssim', 1.0): the default 1.0 in hundredths
DefaultSsim == 100

\* a numeric operator applied to a settings attribute that holds no number
\* raises TypeError
IllTyped(s, attr) == attr \in s.ill_typed

\* ColorCounted without the test of settings.enable_color_unit
ColorCountedWhenPresent(res, s) == "color_metrics" \in DOMAIN res

ColorCounted(res, s) == s.enable_color_unit /\ "color_metrics" \in DOMAIN res

PatternCounted(res, s) == s.enable_pattern_unit /\ "pattern_metrics" \in DOMAIN res

RepetitionCounted(res, s) ==
    s.enable_pattern_repetition /\ "pattern_repetition" \in DOMAIN res

\* ColorScore computed from the mean of delta-E 2000
ColorScoreFromDe2000(res, s) ==
    IF s.enable_color_unit /\ "color_metrics" \in DOMAIN res
    THEN Max(0, FullScore
                   - Get(res.color_metrics, "mean_de2000", 0) * s.color_score_multiplier * 2)
    ELSE FullScore

\* ColorScore without the clamp max(0.0, ...)
ColorScoreUnclamped(res, s) ==
    IF s.enable_color_unit /\ "color_metrics" \in DOMAIN res
    THEN FullScore - Get(res.color_metrics, "mean_de76", 0) * s.color_score_multiplier * 2
    ELSE FullScore

\* color_score = max(0.0, 100.0 - mean_de * multiplier), else 100.0
ColorScore(res, s) ==
    IF ColorCounted(res, s)
    THEN Max(0, FullScore
                   - Get(res.color_metrics, "mean_de76", 0) * s.color_score_multiplier * 2)
    ELSE FullScore

\* PatternScore that is 0 for a Pattern unit whose status is FAIL or ERROR
PatternScoreByStatus(res, s) ==
    IF PatternCounted(res, s)
    THEN IF Get(res.pattern_metrics, "status", "N/A") \in {"FAIL", "ERROR"} THEN 0
         ELSE Get(res.pattern_metrics, "ssim", DefaultSsim) * 4
    ELSE FullScore

\* pattern_score = ssim * 100.0, else 100.0
PatternScore(res, s) ==
    IF PatternCounted(res, s)
    THEN Get(res.pattern_metrics, "ssim", DefaultSsim) * 4
    ELSE FullScore

\* overall_score = (color_score + pattern_score) / 2.0
OverallScore(c, p) == (c + p) \div 2

RepStatus(res, s) ==
    IF RepetitionCounted(res, s) THEN Get(res.pattern_repetition, "status", "N/A")
    ELSE "N/A"

\* PatternRepOk with a flag that remembers a FAIL of an earlier run
PatternRepOkRemembering(res, s) ==
    /\ ~(s.enable_pattern_repetition /\ "pattern_repetition" \in DOMAIN res
         /\ Get(res.pattern_repetition, "status", "N/A") = "FAIL")
    /\ \A i \in DOMAIN runs : runs[i].results.decision # "REJECT"

\* pattern_rep_ok
PatternRepOk(res, s) == ~(RepetitionCounted(res, s) /\ RepStatus(res, s) = "FAIL")

\* pattern_rep_conditional
PatternRepConditional(res, s) ==
    RepetitionCounted(res, s) /\ RepStatus(res, s) = "CONDITIONAL"

\* Decide without its `elif not pattern_rep_ok` branch
DecideWithoutVeto(c, p, o, ok, cond, s) ==
    IF c >= s.color_score_threshold /\ p >= s.pattern_score_threshold /\ ok /\ ~cond
    THEN "ACCEPT"
    ELSE IF o >= s.overall_score_threshold \/ cond THEN "CONDITIONAL ACCEPT"
    ELSE "REJECT"

\* Decide with an ACCEPT branch for scores exactly at their thresholds only
DecideAtThresholdOnly(c, p, o, ok, cond, s) ==
    IF c = s.color_score_threshold /\ p >= s.pattern_score_threshold /\ ok /\ ~cond
    THEN "ACCEPT"
    ELSE IF ~ok THEN "REJECT"
    ELSE IF o >= s.overall_score_threshold \/ cond THEN "CONDITIONAL ACCEPT"
    ELSE "REJECT"

\* the if / elif chain of the decision logic, for well-typed thresholds
Decide(c, p, o, ok, cond, s) ==
    IF c >= s.color_score_threshold /\ p >= s.pattern_score_threshold /\ ok /\ ~cond
    THEN "ACCEPT"
    ELSE IF ~ok THEN "REJECT"
    ELSE IF o >= s.overall_score_threshold \/ cond THEN "CONDITIONAL ACCEPT"
    ELSE "REJECT"

\* TypeError while computing the scores, before any of them is written
ScoreRaisesEarly(res, s) ==
    ColorCounted(res, s) /\ IllTyped(s, "color_score_multiplier")

\* TypeError in one of the comparisons of the decision logic, which are
\* evaluated left to right with short-circuiting, after the scores are written
DecisionRaises(c, p, ok, cond, s) ==
    \/ IllTyped(s, "color_score_threshold")
    \/ /\ c >= s.color_score_threshold
       /\ IllTyped(s, "pattern_score_threshold")
    \/ /\ ~(c >= s.color_score_threshold /\ p >= s.pattern_score_threshold
            /\ ok /\ ~cond)
       /\ ok
       /\ IllTyped(s, "overall_score_threshold")

\* calculate_comprehensive_scores(results, settings): the dict it leaves and
\* whether it raised
calculate_comprehensive_scores(res, s) ==
    IF ScoreRaisesEarly(res, s)
    THEN [raises |-> TRUE, results |-> res]
    ELSE
      LET c    == ColorScore(res, s)
          p    == PatternScore(res, s)
          o    == OverallScore(c, p)
          ok   == PatternRepOk(res, s)
          cond == PatternRepConditional(res, s)
          scored == Put(Put(Put(res, "color_score", c), "pattern_score", p),
                        "overall_score", o)
      IN IF DecisionRaises(c, p, ok, cond, s)
         THEN [raises |-> TRUE, results |-> scored]
         ELSE [raises |-> FALSE,
               results |-> Put(scored, "decision", Decide(c, p, o, ok, cond, s))]

(* ----------------------------- unit results ---------------------------- *)

\* determine_status with `value <= pass_threshold` for PASS when lower is
\* better
determine_status_inclusive(value, pass_threshold, conditional_threshold, lower_is_better) ==
    IF lower_is_better
    THEN IF value <= pass_threshold THEN "PASS"
         ELSE IF value <= conditional_threshold THEN "CONDITIONAL"
         ELSE "FAIL"
    ELSE IF value > pass_threshold THEN "PASS"
         ELSE IF value > conditional_threshold THEN "CONDITIONAL"
         ELSE "FAIL"

determine_status(value, pass_threshold, conditional_threshold, lower_is_better) ==
    IF lower_is_better
    THEN IF value < pass_threshold THEN "PASS"
         ELSE IF value <= conditional_threshold THEN "CONDITIONAL"
         ELSE "FAIL"
    ELSE IF value > pass_threshold THEN "PASS"
         ELSE IF value > conditional_threshold THEN "CONDITIONAL"
         ELSE "FAIL"

\* Where the try block of a unit raises: not at all, before its metrics are
\* assigned, or after (attribute reads, chart generation and its imports).
BodyFailures == {"none", "before_metrics", "after_metrics"}

\* color_results['metrics'] as run_comprehensive_color_analysis returns it
\* (the keys read by later stages), for image statistics de76 / de00
run_comprehensive_color_analysis(de76, de00, s, fail) ==
    IF fail = "before_metrics" THEN [status |-> "ERROR"]
    ELSE [mean_de76   |-> de76,
          mean_de2000 |-> de00,
          status      |-> IF fail = "after_metrics" THEN "ERROR"
                          ELSE determine_status(de00, s.delta_e_threshold,
                                                s.delta_e_conditional, TRUE)]

\* pattern_results['metrics'] as run_comprehensive_pattern_analysis returns it
run_comprehensive_pattern_analysis(ssim_val, s, fail) ==
    IF fail = "before_metrics" THEN [status |-> "ERROR"]
    ELSE [ssim   |-> ssim_val,
          status |-> IF fail = "after_metrics" THEN "ERROR"
                     ELSE determine_status(ssim_val, s.ssim_pass_threshold,
                                           s.ssim_conditional_threshold, FALSE)]

\* CountStatus with `<` in place of `<=` in both comparisons
CountStatusStrict(count_diff, s) ==
    IF count_diff < s.pattern_count_tolerance THEN "PASS"
    ELSE IF count_diff < s.pattern_count_tolerance * 2 THEN "CONDITIONAL"
    ELSE "FAIL"

\* the status the pattern counts determine
CountStatus(count_diff, s) ==
    IF count_diff <= s.pattern_count_tolerance THEN "PASS"
    ELSE IF count_diff <= s.pattern_count_tolerance * 2 THEN "CONDITIONAL"
    ELSE "FAIL"

\* rep_results as run_comprehensive_repetition_analysis returns it; a failed
\* connected-component analysis contributes the count 0
run_comprehensive_repetition_analysis(count_ref, count_test, s, fail) ==
    IF fail = "before_metrics" THEN [status |-> "ERROR"]
    ELSE [count_ref  |-> count_ref,
          count_test |-> count_test,
          count_diff |-> Abs(count_ref - count_test),
          status     |-> IF fail = "after_metrics" THEN "ERROR"
                         ELSE CountStatus(Abs(count_ref - count_test), s)]

(* ------------------------------- inputs -------------------------------- *)

None == "None"

\* no arguments are fixed in advance: each stage draws what it reads
NoArgs == [open |-> TRUE]

\* the settings objects a request can carry (QCSettings.from_dict of the
\* request's settings, or the defaults); ill_typed names the attributes that
\* hold a value the scoring arithmetic cannot use
IllTypedChoices == {{}, {"color_score_multiplier"}, {"color_score_threshold"},
                    {"pattern_score_threshold"}, {"overall_score_threshold"}}

RequestSettings ==
    [enable_color_unit          : BOOLEAN,
     enable_pattern_unit        : BOOLEAN,
     enable_pattern_repetition  : BOOLEAN,
     enable_spectrophotometer   : BOOLEAN,
     color_score_multiplier     : {10},
     color_score_threshold      : {360},
     pattern_score_threshold    : {360},
     overall_score_threshold    : {340},
     pattern_count_tolerance    : 0 .. MaxTolerance,
     delta_e_threshold          : {4},
     delta_e_conditional        : {7},
     ssim_pass_threshold        : {90},
     ssim_conditional_threshold : {80},
     ill_typed                  : IllTypedChoices]

\* the settings variable before analyze assigns it
NoSettings == [unassigned |-> TRUE]

\* <<mean delta-E 76, mean delta-E 2000>> of the two images
ColorInputs == {<<1, 1>>, <<4, 4>>, <<8, 7>>}

\* SSIM of the two images
SsimInputs == {85, 96}

NoResponse == [status |-> 0, body |-> EmptyDict]

(* ------------------------ analyze: before the run ----------------------- *)

Raise(label, handler) ==
    /\ exc' = label
    /\ raised' = raised \cup {label}
    /\ pc' = handler

\* data = request.get_json() raises (malformed body, wrong content type):
\* data stays unbound
ReadJsonRaises ==
    /\ pc = "r_json"
    /\ Raise("get_json", "r_except")
    /\ UNCHANGED <<data, settings, results, files, response, stages>>

    /\ UNCHANGED <<args, runs>>
\* a body that is empty or has no session_id: 400
ReadJsonRejected ==
    /\ pc = "r_json"
    /\ \E d \in {"None", "dict_without_session_id"} : data' = d
    /\ response' = [status |-> 400, body |-> [error |-> "Session ID required"]]
    /\ pc' = "done"
    /\ UNCHANGED <<settings, results, files, exc, raised, stages>>

    /\ UNCHANGED <<args, runs>>
\* a JSON body that is no object (a list holding "session_id", a number):
\* the membership test or data['session_id'] raises TypeError
ReadJsonNotADict ==
    /\ pc = "r_json"
    /\ data' = "not_a_dict"
    /\ Raise("data_subscript", "r_except")
    /\ UNCHANGED <<settings, results, files, response, stages>>

    /\ UNCHANGED <<args, runs>>
ReadJsonOk ==
    /\ pc = "r_json"
    /\ data' = "dict"
    /\ pc' = "r_session"
    /\ UNCHANGED <<settings, results, files, response, exc, raised, stages>>

    /\ UNCHANGED <<args, runs>>
\* the session directory or one of its images is missing: 404
LocateSessionNotFound ==
    /\ pc = "r_session"
    /\ \E msg \in {"Session not found", "Images not found"} :
          response' = [status |-> 404, body |-> [error |-> msg]]
    /\ pc' = "done"
    /\ UNCHANGED <<data, settings, results, files, exc, raised, stages>>

    /\ UNCHANGED <<args, runs>>
\* os.path.join on a session_id that is no string, os.listdir
LocateSessionRaises ==
    /\ pc = "r_session"
    /\ Raise("locate_session", "r_except")
    /\ UNCHANGED <<data, settings, results, files, response, stages>>

    /\ UNCHANGED <<args, runs>>
LocateSessionOk ==
    /\ pc = "r_session"
    /\ pc' = "r_settings"
    /\ UNCHANGED <<data, settings, results, files, response, exc, raised, stages>>

    /\ UNCHANGED <<args, runs>>
\* from app.core.settings import QCSettings, QCSettings()
ParseSettingsRaises ==
    /\ pc = "r_settings"
    /\ Raise("settings_import", "r_except")
    /\ UNCHANGED <<data, settings, results, files, response, stages>>

    /\ UNCHANGED <<args, runs>>
\* QCSettings(), replaced by QCSettings.from_dict(...) unless that raises
ParseSettings ==
    /\ pc = "r_settings"
    /\ settings' \in RequestSettings
    /\ pc' = "r_images"
    /\ UNCHANGED <<data, results, files, response, exc, raised, stages>>

    /\ UNCHANGED <<args, runs>>
\* read_rgb, to_same_size, os.makedirs
LoadImagesRaises ==
    /\ pc = "r_images"
    /\ Raise("load_images", "r_except")
    /\ UNCHANGED <<data, settings, results, files, response, stages>>

    /\ UNCHANGED <<args, runs>>
LoadImagesOk ==
    /\ pc = "r_images"
    /\ pc' = "r_call"
    /\ UNCHANGED <<data, settings, results, files, response, exc, raised, stages>>

    /\ UNCHANGED <<args, runs>>
\* what analyze substitutes for the results of a run that raised, or
\* returned None
MinimalResults(error) ==
    [decision |-> "ERROR", color_score |-> 0, pattern_score |-> 0,
     overall_score |-> 0, error |-> error]

\* from app.pipeline.runner import run_analysis_pipeline raises: caught by
\* the handler around the call
CallPipelineRaises ==
    /\ pc = "r_call"
    /\ raised' = raised \cup {"runner_import"}
    /\ results' = MinimalResults("runner_import")
    /\ pc' = "r_check"
    /\ UNCHANGED <<data, settings, files, response, exc, stages>>

    /\ UNCHANGED <<args, runs>>
\* run_analysis_pipeline is entered: results = {..., 'error': None}
CallPipeline ==
    /\ pc = "r_call"
    /\ results' = [error |-> None]
    /\ pc' = "p_setup"
    /\ UNCHANGED <<data, settings, files, response, exc, raised, stages>>

    /\ UNCHANGED <<args, runs>>
(* ------------------------- run_analysis_pipeline ------------------------ *)

Enter(stage) == stages' = Append(stages, stage)

\* os.makedirs, apply_crop (its failure is caught), cv2.resize
SetupRaises ==
    /\ pc = "p_setup"
    /\ Enter("setup")
    /\ Raise("setup", "p_except")
    /\ UNCHANGED <<data, settings, results, files, response>>

    /\ UNCHANGED <<args, runs>>
SetupOk ==
    /\ pc = "p_setup"
    /\ Enter("setup")
    /\ results' = Put(results, "analysis_size", "640xH")
    /\ pc' = "p_color"
    /\ UNCHANGED <<data, settings, files, response, exc, raised>>

    /\ UNCHANGED <<args, runs>>
ColorSkipped ==
    /\ pc = "p_color"
    /\ ~settings.enable_color_unit
    /\ pc' = "p_pattern"
    /\ UNCHANGED <<data, settings, results, files, response, exc, raised, stages>>

    /\ UNCHANGED <<args, runs>>
\* the imports run_comprehensive_color_analysis executes before its try
ColorEntryRaises ==
    /\ pc = "p_color"
    /\ settings.enable_color_unit
    /\ Enter("color")
    /\ Raise("color_entry", "p_except")
    /\ UNCHANGED <<data, settings, results, files, response>>

    /\ UNCHANGED <<args, runs>>
\* run_comprehensive_color_analysis returns; an exception of its try block
\* is caught inside it
ColorUnit ==
    /\ pc = "p_color"
    /\ settings.enable_color_unit
    /\ Enter("color")
    /\ \E de \in ColorInputs, fail \in BodyFailures :
         /\ results' = Put(results, "color_metrics",
                           run_comprehensive_color_analysis(de[1], de[2], settings, fail))
         /\ raised' = IF fail = "none" THEN raised ELSE raised \cup {"color_body"}
    /\ pc' = "p_pattern"
    /\ UNCHANGED <<data, settings, files, response, exc>>

    /\ UNCHANGED <<args, runs>>
\* PatternSkipped without the test of settings.enable_pattern_unit
PatternSkippedAlways ==
    /\ pc = "p_pattern"
    /\ pc' = "p_repetition"
    /\ UNCHANGED <<data, settings, results, files, response, exc, raised, stages>>

    /\ UNCHANGED <<args, runs>>
PatternSkipped ==
    /\ pc = "p_pattern"
    /\ ~settings.enable_pattern_unit
    /\ pc' = "p_repetition"
    /\ UNCHANGED <<data, settings, results, files, response, exc, raised, stages>>

    /\ UNCHANGED <<args, runs>>
PatternEntryRaises ==
    /\ pc = "p_pattern"
    /\ settings.enable_pattern_unit
    /\ Enter("pattern")
    /\ Raise("pattern_entry", "p_except")
    /\ UNCHANGED <<data, settings, results, files, response>>

    /\ UNCHANGED <<args, runs>>
\* PatternUnit without the try / except of the unit: an exception of its
\* body reaches the pipeline-level handler
PatternUnitUnwrapped ==
    /\ pc = "p_pattern"
    /\ settings.enable_pattern_unit
    /\ Enter("pattern")
    /\ \E ssim_val \in SsimInputs, fail \in BodyFailures :
         IF fail = "none"
         THEN /\ results' = Put(results, "pattern_metrics",
                        run_comprehensive_pattern_analysis(ssim_val, settings, fail))
              /\ pc' = "p_repetition"
              /\ UNCHANGED <<exc, raised>>
         ELSE /\ Raise("pattern_body", "p_except")
              /\ UNCHANGED results
    /\ UNCHANGED <<data, settings, files, response>>

    /\ UNCHANGED <<args, runs>>
PatternUnit ==
    /\ pc = "p_pattern"
    /\ settings.enable_pattern_unit
    /\ Enter("pattern")
    /\ \E ssim_val \in SsimInputs, fail \in BodyFailures :
         /\ results' = Put(results, "pattern_metrics",
                           run_comprehensive_pattern_analysis(ssim_val, settings, fail))
         /\ raised' = IF fail = "none" THEN raised ELSE raised \cup {"pattern_body"}
    /\ pc' = "p_repetition"
    /\ UNCHANGED <<data, settings, files, response, exc>>

    /\ UNCHANGED <<args, runs>>
RepetitionSkipped ==
    /\ pc = "p_repetition"
    /\ ~settings.enable_pattern_repetition
    /\ pc' = "p_spectro"
    /\ UNCHANGED <<data, settings, results, files, response, exc, raised, stages>>

    /\ UNCHANGED <<args, runs>>
RepetitionEntryRaises ==
    /\ pc = "p_repetition"
    /\ settings.enable_pattern_repetition
    /\ Enter("repetition")
    /\ Raise("repetition_entry", "p_except")
    /\ UNCHANGED <<data, settings, results, files, response>>

    /\ UNCHANGED <<args, runs>>
RepetitionUnit ==
    /\ pc = "p_repetition"
    /\ settings.enable_pattern_repetition
    /\ Enter("repetition")
    /\ \E count_ref \in 0 .. MaxCount, count_test \in 0 .. MaxCount,
          fail \in BodyFailures :
         /\ results' = Put(results, "pattern_repetition",
                           run_comprehensive_repetition_analysis(
                               count_ref, count_test, settings, fail))
         /\ raised' = IF fail = "none" THEN raised ELSE raised \cup {"repetition_body"}
    /\ pc' = "p_spectro"
    /\ UNCHANGED <<data, settings, files, response, exc>>

    /\ UNCHANGED <<args, runs>>
SpectroSkipped ==
    /\ pc = "p_spectro"
    /\ ~settings.enable_spectrophotometer
    /\ pc' = "p_regional"
    /\ UNCHANGED <<data, settings, results, files, response, exc, raised, stages>>

    /\ UNCHANGED <<args, runs>>
SpectroEntryRaises ==
    /\ pc = "p_spectro"
    /\ settings.enable_spectrophotometer
    /\ Enter("spectro")
    /\ Raise("spectro_entry", "p_except")
    /\ UNCHANGED <<data, settings, results, files, response>>

    /\ UNCHANGED <<args, runs>>
\* run_spectrophotometer_analysis returns its dict, whatever fails inside
SpectroUnit ==
    /\ pc = "p_spectro"
    /\ settings.enable_spectrophotometer
    /\ Enter("spectro")
    /\ results' = Put(results, "spectrophotometer", "spectro_results")
    /\ pc' = "p_regional"
    /\ UNCHANGED <<data, settings, files, response, exc, raised>>

    /\ UNCHANGED <<args, runs>>
\* the imports and the shape read compute_regional_samples executes before
\* its try
RegionalEntryRaises ==
    /\ pc = "p_regional"
    /\ Enter("regional")
    /\ Raise("regional_entry", "p_except")
    /\ UNCHANGED <<data, settings, results, files, response>>

    /\ UNCHANGED <<args, runs>>
RegionalSamples ==
    /\ pc = "p_regional"
    /\ Enter("regional")
    /\ results' = Put(results, "regional_samples", "samples")
    /\ pc' = "p_scoring"
    /\ UNCHANGED <<data, settings, files, response, exc, raised>>

    /\ UNCHANGED <<args, runs>>
\* Scoring with a scoring function that stores a threshold into settings
ScoringWritesSettings ==
    /\ pc = "p_scoring"
    /\ Enter("scoring")
    /\ LET out == calculate_comprehensive_scores(results, settings)
       IN /\ results' = out.results
          /\ IF out.raises
             THEN Raise("scoring", "p_except")
             ELSE pc' = "p_report" /\ UNCHANGED <<exc, raised>>
    /\ settings' = [settings EXCEPT !.overall_score_threshold = 0]
    /\ UNCHANGED <<data, files, response, args, runs>>

\* calculate_comprehensive_scores(results, settings)
Scoring ==
    /\ pc = "p_scoring"
    /\ Enter("scoring")
    /\ LET out == calculate_comprehensive_scores(results, settings)
       IN /\ results' = out.results
          /\ IF out.raises
             THEN Raise("scoring", "p_except")
             ELSE pc' = "p_report" /\ UNCHANGED <<exc, raised>>
    /\ UNCHANGED <<data, settings, files, response>>

    /\ UNCHANGED <<args, runs>>
\* build_comprehensive_report returns a path: of the PDF it built, or of the
\* fallback PDF, which may not have been written
ReportBuilt ==
    /\ pc = "p_report"
    /\ Enter("report")
    /\ results' = Put(results, "pdf_path", "report.pdf")
    /\ \E written \in BOOLEAN :
         files' = IF written THEN files \cup {"report.pdf"} ELSE files
    /\ pc' = "p_return"
    /\ UNCHANGED <<data, settings, response, exc, raised>>

    /\ UNCHANGED <<args, runs>>
\* ReportFallsBack with a report failure that is handled like a
\* pipeline-level failure
ReportFallsBackAsError ==
    /\ pc = "p_report"
    /\ stages' = stages \o <<"report", "simple_report">>
    /\ raised' = raised \cup {"report"}
    /\ results' = Put(Put(Put(Put(results, "color_score", 0), "pattern_score", 0),
                          "overall_score", 0), "decision", "ERROR")
    /\ pc' = "p_return"
    /\ UNCHANGED <<data, settings, files, response, exc, args, runs>>

\* importing or calling build_comprehensive_report raises: caught, and
\* create_simple_report writes the text report (a failed write is ignored)
ReportFallsBack ==
    /\ pc = "p_report"
    /\ stages' = stages \o <<"report", "simple_report">>
    /\ raised' = raised \cup {"report"}
    /\ results' = Put(results, "pdf_path", "report.txt")
    /\ \E written \in BOOLEAN :
         files' = IF written THEN files \cup {"report.txt"} ELSE files
    /\ pc' = "p_return"
    /\ UNCHANGED <<data, settings, response, exc>>

    /\ UNCHANGED <<args, runs>>
\* PipelineError without the three score assignments
PipelineErrorKeepsScores(res, e) == Put(Put(res, "decision", "ERROR"), "error", e)

\* PipelineError without the assignment of results['error']
PipelineErrorWithoutMessage(res, e) ==
    Put(Put(Put(Put(res, "color_score", 0), "pattern_score", 0),
            "overall_score", 0), "decision", "ERROR")

\* results as the pipeline-level handler leaves them for exception e
PipelineError(res, e) ==
    Put(Put(Put(Put(Put(res, "color_score", 0), "pattern_score", 0),
                "overall_score", 0), "decision", "ERROR"), "error", e)

\* a pipeline without its try / except: the exception leaves
\* run_analysis_pipeline and reaches the handler around the call in analyze
PipelineHandlerMissing ==
    /\ pc = "p_except"
    /\ results' = MinimalResults(exc)
    /\ pc' = "r_check"
    /\ UNCHANGED <<data, settings, files, response, exc, raised, stages>>

    /\ UNCHANGED <<args, runs>>
\* except Exception as e: of run_analysis_pipeline
PipelineHandler ==
    /\ pc = "p_except"
    /\ results' = PipelineError(results, exc)
    /\ exc' = "none"
    /\ pc' = "p_return"
    /\ UNCHANGED <<data, settings, files, response, raised, stages>>

    /\ UNCHANGED <<args, runs>>
\* return results
PipelineReturn ==
    /\ pc = "p_return"
    /\ pc' = "r_check"
    /\ UNCHANGED <<data, settings, results, files, response, exc, raised, stages>>

    /\ UNCHANGED <<args, runs>>
(* ------------------------- analyze: after the run ----------------------- *)

NoResults == [is_none |-> TRUE]

\* results.get(k, 0), as float(...) puts it in the response
Score(res, k) == Get(res, k, 0)

\* `if results is None` and `if results.get('decision') == 'ERROR'`: the
\* ERROR response, built from the scores found in results
ErrorResponse(res) ==
    LET r == IF res = NoResults THEN MinimalResults("Analysis returned no results")
             ELSE res
    IN [status |-> 200,
        body |-> [decision      |-> "ERROR",
                  color_score   |-> Score(r, "color_score"),
                  pattern_score |-> Score(r, "pattern_score"),
                  overall_score |-> Score(r, "overall_score"),
                  error         |-> Get(r, "error", "Analysis failed"),
                  pdf_filename  |-> ""]]

\* IsError without the check of the decision
IsErrorOnlyNone(res) == res = NoResults

IsError(res) == res = NoResults \/ Get(res, "decision", None) = "ERROR"

RespondError ==
    /\ pc = "r_check"
    /\ IsError(results)
    /\ response' = ErrorResponse(results)
    /\ pc' = "done"
    /\ UNCHANGED <<data, settings, results, files, exc, raised, stages>>

    /\ UNCHANGED <<args, runs>>
\* the response of a run that produced a decision
AnalysisResponse(res, pdf_filename) ==
    [status |-> 200,
     body |-> [decision      |-> Get(res, "decision", "N/A"),
               color_score   |-> Score(res, "color_score"),
               pattern_score |-> Score(res, "pattern_score"),
               overall_score |-> Score(res, "overall_score"),
               pdf_filename  |-> pdf_filename]]

PdfMissing(res) ==
    Get(res, "pdf_path", "") = "" \/ Get(res, "pdf_path", "") \notin files

\* the report of the run exists
Respond ==
    /\ pc = "r_check"
    /\ ~IsError(results)
    /\ ~PdfMissing(results)
    /\ response' = AnalysisResponse(results, results.pdf_path)
    /\ pc' = "done"
    /\ UNCHANGED <<data, settings, results, files, exc, raised, stages>>

    /\ UNCHANGED <<args, runs>>
\* no report exists: create_fallback_pdf returns a path, written or not
RespondWithFallbackPdf ==
    /\ pc = "r_check"
    /\ ~IsError(results)
    /\ PdfMissing(results)
    /\ Enter("fallback_pdf")
    /\ \E written \in BOOLEAN :
         files' = IF written THEN files \cup {"fallback.pdf"} ELSE files
    /\ response' = AnalysisResponse(results, "fallback.pdf")
    /\ pc' = "done"
    /\ UNCHANGED <<data, settings, results, exc, raised>>

    /\ UNCHANGED <<args, runs>>
\* importing create_fallback_pdf raises: caught, a placeholder name is used
RespondWithoutPdf ==
    /\ pc = "r_check"
    /\ ~IsError(results)
    /\ PdfMissing(results)
    /\ Enter("fallback_pdf")
    /\ raised' = raised \cup {"fallback_pdf_import"}
    /\ response' = AnalysisResponse(results, "report_unavailable.pdf")
    /\ pc' = "done"
    /\ UNCHANGED <<data, settings, results, files, exc>>

    /\ UNCHANGED <<args, runs>>
\* the outer handler, with data bound to the request's dict
RouteHandler ==
    /\ pc = "r_except"
    /\ data = "dict"
    /\ response' = [status |-> 200,
                    body |-> [decision |-> "ERROR", color_score |-> 0,
                              pattern_score |-> 0, overall_score |-> 0,
                              error |-> exc, pdf_filename |-> ""]]
    /\ exc' = "none"
    /\ pc' = "done"
    /\ UNCHANGED <<data, settings, results, files, raised, stages>>

    /\ UNCHANGED <<args, runs>>
\* the outer handler evaluates `data.get('session_id', '') if data else ''`
\* with data unbound (UnboundLocalError) or bound to a value without .get
\* (AttributeError): the new exception leaves analyze
RouteHandlerRaises ==
    /\ pc = "r_except"
    /\ data # "dict"
    /\ Raise(IF data = "unbound" THEN "UnboundLocalError" ELSE "AttributeError",
             "raised")
    /\ UNCHANGED <<data, settings, results, files, response, stages>>

    /\ UNCHANGED <<args, runs>>
(* ---------------------------- specification ---------------------------- *)

Init ==
    /\ pc = "r_json"
    /\ data = "unbound"
    /\ settings = NoSettings
    /\ results = NoResults
    /\ files = {}
    /\ response = NoResponse
    /\ exc = "none"
    /\ raised = {}
    /\ stages = <<>>

    /\ args = NoArgs
    /\ runs = <<>>
Next ==
    \/ ReadJsonRaises \/ ReadJsonRejected \/ ReadJsonNotADict \/ ReadJsonOk
    \/ LocateSessionNotFound \/ LocateSessionRaises \/ LocateSessionOk
    \/ ParseSettingsRaises \/ ParseSettings
    \/ LoadImagesRaises \/ LoadImagesOk
    \/ CallPipelineRaises \/ CallPipeline
    \/ SetupRaises \/ SetupOk
    \/ ColorSkipped \/ ColorEntryRaises \/ ColorUnit
    \/ PatternSkipped \/ PatternEntryRaises \/ PatternUnit
    \/ RepetitionSkipped \/ RepetitionEntryRaises \/ RepetitionUnit
    \/ SpectroSkipped \/ SpectroEntryRaises \/ SpectroUnit
    \/ RegionalEntryRaises \/ RegionalSamples
    \/ Scoring
    \/ ReportBuilt \/ ReportFallsBack
    \/ PipelineHandler \/ PipelineReturn
    \/ RespondError \/ Respond \/ RespondWithFallbackPdf \/ RespondWithoutPdf
    \/ RouteHandler \/ RouteHandlerRaises

Spec == Init /\ [][Next]_vars

(* ------- calculate_comprehensive_scores applied to bounded inputs ------- *)

MultiplierValues == {10, 30, 250}

ColorThresholds == {360, 400}

PatternThresholds == {360, 388}

OverallThresholds == {340, 390}

ScoreSettings ==
    [enable_color_unit          : BOOLEAN,
     enable_pattern_unit        : BOOLEAN,
     enable_pattern_repetition  : BOOLEAN,
     enable_spectrophotometer   : {FALSE},
     color_score_multiplier     : MultiplierValues,
     color_score_threshold      : ColorThresholds,
     pattern_score_threshold    : PatternThresholds,
     overall_score_threshold    : OverallThresholds,
     pattern_count_tolerance    : {1},
     delta_e_threshold          : {4},
     delta_e_conditional        : {7},
     ssim_pass_threshold        : {90},
     ssim_conditional_threshold : {80},
     ill_typed                  : IllTypedChoices]

\* the color_metrics a call can find in results
ColorMetricsInputs(s) ==
    {[status |-> "ERROR"]} \cup
    {run_comprehensive_color_analysis(d76, d00, s, "none") :
        d76 \in 0 .. MaxDE, d00 \in {0, MaxDE}}

ScoreSsimInputs == {0, 85, 90, 96, 100}

PatternMetricsInputs(s) ==
    {[status |-> "ERROR"]} \cup
    {run_comprehensive_pattern_analysis(v, s, "none") : v \in ScoreSsimInputs}

RepetitionInputs ==
    {[status |-> st] : st \in {"PASS", "CONDITIONAL", "FAIL", "ERROR", "N/A"}}

WithKey(d, k, present, v) == IF present THEN Put(d, k, v) ELSE d

InitScores ==
    /\ pc = "f_call"
    /\ data = "dict"
    /\ settings \in ScoreSettings
    /\ \E hasC \in BOOLEAN, hasP \in BOOLEAN, hasR \in BOOLEAN :
       \E cm \in IF hasC THEN ColorMetricsInputs(settings) ELSE {EmptyDict},
          pm \in IF hasP THEN PatternMetricsInputs(settings) ELSE {EmptyDict},
          rp \in IF hasR THEN RepetitionInputs ELSE {EmptyDict} :
         results = WithKey(WithKey(WithKey([error |-> None],
                       "color_metrics", hasC, cm),
                       "pattern_metrics", hasP, pm),
                       "pattern_repetition", hasR, rp)
    /\ files = {}
    /\ response = NoResponse
    /\ exc = "none"
    /\ raised = {}
    /\ stages = <<>>

    /\ args = NoArgs
    /\ runs = <<>>
ApplyScores ==
    /\ pc = "f_call"
    /\ Enter("scoring")
    /\ LET out == calculate_comprehensive_scores(results, settings)
       IN /\ results' = out.results
          /\ IF out.raises
             THEN Raise("scoring", "f_raised")
             ELSE pc' = "f_returned" /\ UNCHANGED <<exc, raised>>
    /\ UNCHANGED <<data, settings, files, response>>

    /\ UNCHANGED <<args, runs>>
NextScores == ApplyScores

SpecScores == InitScores /\ [][NextScores]_vars

(* ------------- the three units in any order, joined before scoring ------ *)

Units == {"color", "pattern", "repetition"}

UnitEnabled(u, s) ==
    CASE u = "color"      -> s.enable_color_unit
      [] u = "pattern"    -> s.enable_pattern_unit
      [] u = "repetition" -> s.enable_pattern_repetition

\* the key of results under which run_analysis_pipeline stores what unit u
\* returned
UnitKey(u) ==
    CASE u = "color"      -> "color_metrics"
      [] u = "pattern"    -> "pattern_metrics"
      [] u = "repetition" -> "pattern_repetition"

\* the keys of results['charts'] the chart generator of unit u writes
UnitCharts(u) ==
    CASE u = "color"      -> {"hist_ref", "hist_test", "de_heatmap", "spectral_proxy",
                              "ab_scatter", "lab_bars", "overlay_ref", "overlay_test"}
      [] u = "pattern"    -> {"fft_spectrum", "gabor_montage", "glcm_radar", "lbp_map",
                              "wavelet_energy", "defect_saliency"}
      [] u = "repetition" -> {"pattern_detection_ref", "pattern_detection_test",
                              "pattern_count", "density_ref", "density_test",
                              "integrity_radar"}

\* results['charts'][k] = <path of chart k>, for every chart of the unit
WriteCharts(res, keys) ==
    Put(res, "charts",
        [k \in (DOMAIN res.charts) \cup keys |->
            IF k \in keys THEN k ELSE res.charts[k]])

\* how a unit function can fail: in its try block (BodyFailures) or in the
\* imports before it
UnitFailures == BodyFailures \cup {"entry"}

\* pattern counts of the two images
CountInputs == {<<0, 0>>, <<0, 1>>, <<0, MaxCount>>}

\* ref_small / test_small by the statistics the units compute from them, and
\* where each unit function fails on them
ImageArgs ==
    [de : ColorInputs, ssim : SsimInputs, counts : CountInputs,
     fail : [Units -> UnitFailures]]

\* UnitResult with a Pattern unit that needs the Color unit's metrics in
\* results
UnitResultReadingResults(u, res, a, s) ==
    CASE u = "color" ->
           run_comprehensive_color_analysis(a.de[1], a.de[2], s, a.fail[u])
      [] u = "pattern" ->
           run_comprehensive_pattern_analysis(
               a.ssim, s,
               IF "color_metrics" \in DOMAIN res THEN a.fail[u] ELSE "before_metrics")
      [] u = "repetition" ->
           run_comprehensive_repetition_analysis(a.counts[1], a.counts[2], s, a.fail[u])

\* what unit function u returns when called with the images a, settings s and
\* the shared dict res: it computes from the images and the settings only
UnitResult(u, res, a, s) ==
    CASE u = "color" ->
           run_comprehensive_color_analysis(a.de[1], a.de[2], s, a.fail[u])
      [] u = "pattern" ->
           run_comprehensive_pattern_analysis(a.ssim, s, a.fail[u])
      [] u = "repetition" ->
           run_comprehensive_repetition_analysis(a.counts[1], a.counts[2], s, a.fail[u])

\* results after the body of unit u ran: its charts are written when the
\* body reached generate_*_charts and the imports of that function succeeded
AfterUnitBody(u, res, a) ==
    IF a.fail[u] = "none" THEN WriteCharts(res, UnitCharts(u)) ELSE res

\* the units of `order`, one after the other on the dict res; a unit whose
\* entry imports raise ends the sequence
RECURSIVE RunUnits(_, _, _, _)
RunUnits(order, res, a, s) ==
    IF order = <<>> THEN [raises |-> "none", results |-> res]
    ELSE LET u == Head(order)
         IN IF ~UnitEnabled(u, s) THEN RunUnits(Tail(order), res, a, s)
            ELSE IF a.fail[u] = "entry"
            THEN [raises |-> u \o "_entry", results |-> res]
            ELSE LET body == AfterUnitBody(u, res, a)
                 IN RunUnits(Tail(order),
                             Put(body, UnitKey(u), UnitResult(u, body, a, s)), a, s)

\* the scoring step and the pipeline-level handler, applied to the outcome
\* of the units
ScoreOrError(out, s) ==
    IF out.raises # "none" THEN PipelineError(out.results, out.raises)
    ELSE LET scored == calculate_comprehensive_scores(out.results, s)
         IN IF scored.raises THEN PipelineError(scored.results, "scoring")
            ELSE scored.results

\* results['charts'] = {} and results['error'] = None
NewResults == [error |-> None, charts |-> EmptyDict]

\* the results of the sequential pass Color, Pattern, Repetition, scoring
SequentialOutcome(a, s) ==
    ScoreOrError(RunUnits(<<"color", "pattern", "repetition">>, NewResults, a, s), s)

AnyOrderSettings ==
    {s \in RequestSettings :
        /\ ~s.enable_spectrophotometer
        /\ s.pattern_count_tolerance = MaxTolerance
        /\ s.ill_typed \in {{}, {"overall_score_threshold"}}}

InitAnyOrder ==
    /\ pc = "o_units"
    /\ data = "dict"
    /\ settings \in AnyOrderSettings
    /\ args \in ImageArgs
    /\ results = NewResults
    /\ files = {}
    /\ response = NoResponse
    /\ exc = "none"
    /\ raised = {}
    /\ stages = <<>>
    /\ runs = <<>>

Entered(stage) == \E i \in DOMAIN stages : stages[i] = stage

\* some enabled unit that was not started yet is called: its entry imports
\* raise, or its body runs and writes its charts
UnitStarts ==
    /\ pc = "o_units"
    /\ \E u \in Units :
         /\ UnitEnabled(u, settings)
         /\ ~Entered(u)
         /\ Enter(u)
         /\ IF args.fail[u] = "entry"
            THEN /\ exc' = IF exc = "none" THEN u \o "_entry" ELSE exc
                 /\ raised' = raised \cup {u \o "_entry"}
                 /\ UNCHANGED results
            ELSE /\ results' = AfterUnitBody(u, results, args)
                 /\ raised' = IF args.fail[u] = "none" THEN raised
                               ELSE raised \cup {u \o "_body"}
                 /\ UNCHANGED exc
    /\ UNCHANGED <<pc, data, settings, files, response, args, runs>>

\* some unit function that was called returns, and its result is stored
\* under the key of the unit
UnitReturns ==
    /\ pc = "o_units"
    /\ \E u \in Units :
         /\ Entered(u)
         /\ args.fail[u] # "entry"
         /\ ~Entered(u \o "_returned")
         /\ Enter(u \o "_returned")
         /\ results' = Put(results, UnitKey(u), UnitResult(u, results, args, settings))
    /\ UNCHANGED <<pc, data, settings, files, response, exc, raised, args, runs>>

\* every enabled unit has returned or raised: the join, then scoring, or the
\* pipeline-level handler for an exception that left a unit function
JoinAndScore ==
    /\ pc = "o_units"
    /\ \A u \in Units :
          UnitEnabled(u, settings)
             => /\ Entered(u)
                /\ args.fail[u] # "entry" => Entered(u \o "_returned")
    /\ results' = ScoreOrError([raises |-> exc, results |-> results], settings)
    /\ stages' = IF exc = "none" THEN Append(stages, "scoring") ELSE stages
    /\ raised' = IF results'.decision = "ERROR" /\ exc = "none"
                  THEN raised \cup {"scoring"} ELSE raised
    /\ exc' = "none"
    /\ pc' = "o_returned"
    /\ UNCHANGED <<data, settings, files, response, args, runs>>

NextAnyOrder == UnitStarts \/ UnitReturns \/ JoinAndScore

SpecAnyOrder == InitAnyOrder /\ [][NextAnyOrder]_vars

(* --------------------- several runs in one process ---------------------- *)

RunSettings ==
    {s \in AnyOrderSettings :
        /\ s.ill_typed = {}
        /\ s.enable_pattern_unit}

RunArgs ==
    {a \in ImageArgs :
        /\ a.de \in {<<1, 1>>, <<8, 7>>}
        /\ a.ssim = 96
        /\ a.counts \in {<<0, 0>>, <<0, MaxCount>>}
        /\ a.fail["color"] = "none"
        /\ a.fail["repetition"] = "none"
        /\ a.fail["pattern"] \in {"none", "entry"}}

\* a fresh process: nothing was run
InitRuns ==
    /\ pc = "n_idle"
    /\ data = "dict"
    /\ settings = NoSettings
    /\ args = NoArgs
    /\ results = NoResults
    /\ files = {}
    /\ response = NoResponse
    /\ exc = "none"
    /\ raised = {}
    /\ stages = <<>>
    /\ runs = <<>>

\* run_analysis_pipeline is called with the images and settings of the next
\* request and creates its results dict; what the previous run left is
\* still there
RunStarts ==
    /\ pc = "n_idle"
    /\ Len(runs) < MaxRuns
    /\ settings' \in RunSettings
    /\ args' \in RunArgs
    /\ results' = NewResults
    /\ pc' = "n_running"
    /\ UNCHANGED <<data, files, response, exc, raised, stages, runs>>

\* the run goes through its units and scoring (or its handler) and returns
RunReturns ==
    /\ pc = "n_running"
    /\ results' = SequentialOutcome(args, settings)
    /\ runs' = Append(runs, [settings |-> settings, results |-> results'])
    /\ pc' = "n_idle"
    /\ UNCHANGED <<data, settings, files, response, exc, raised, stages, args>>

NextRuns == RunStarts \/ RunReturns

SpecRuns == InitRuns /\ [][NextRuns]_vars

(* ------------------------------ metamerism ------------------------------ *)
(* delta-E values and the metamerism index are in tenths (3.0 is 30); the   *)
(* index is truncated to a tenth.  Of the dict compute_metamerism_index     *)
(* returns, mean_delta_e and the Lab means of the entries are left out.     *)

\* the white-point table: illuminant name -> <<Xn, Yn, Zn>>, Yn = 100
WHITE_POINTS ==
    [D65 |-> <<95, 100, 109>>, A |-> <<110, 100, 36>>, TL84 |-> <<101, 100, 64>>]

\* the names a list of illuminants is made of; "UV" and "F99" are in no table
IlluminantNames == {"D65", "A", "TL84", "UV", "F99"}

DeltaEValues == {0, 2, 6, MaxDeltaE}

RECURSIVE SeqsUpTo(_, _)
SeqsUpTo(S, n) ==
    IF n = 0 THEN {<<>>}
    ELSE LET shorter == SeqsUpTo(S, n - 1)
         IN shorter \cup {Append(q, x) : q \in shorter, x \in S}

\* illuminants: the list of names; de: the mean delta-E 2000 of the two
\* samples under each illuminant of the table; failing: the illuminants for
\* which adapting, converting or comparing the samples raises
MetamerismArgs ==
    [illuminants : SeqsUpTo(IlluminantNames, MaxIlluminants),
     de          : [DOMAIN WHITE_POINTS -> DeltaEValues],
     failing     : {{}, {"A"}}]

RiskArgs == [index : 0 .. MaxIndex]

\* the loop of compute_metamerism_index with `break` in place of `continue`
EntriesUntilUnknown(illuminants, de, dropped) ==
    LET known == {i \in DOMAIN illuminants : illuminants[i] \in DOMAIN WHITE_POINTS}
        unknown == DOMAIN illuminants \ known
        stop == IF unknown = {} THEN Len(illuminants) + 1
                ELSE CHOOSE i \in unknown : \A j \in unknown : i <= j
    IN [i \in 1 .. (stop - 1) |->
          [illuminant |-> illuminants[i], delta_e |-> de[illuminants[i]]]]

\* the loop over the illuminant names: an entry is appended for every name
\* of the table, names outside it are passed over; `dropped` are the names
\* whose computation raised inside the try of the loop body
RECURSIVE MetamerismEntries(_, _, _)
MetamerismEntries(illuminants, de, dropped) ==
    IF illuminants = <<>> THEN <<>>
    ELSE LET ill_name == Head(illuminants)
             rest == MetamerismEntries(Tail(illuminants), de, dropped)
         IN IF ill_name \notin DOMAIN WHITE_POINTS \/ ill_name \in dropped
            THEN rest
            ELSE <<[illuminant |-> ill_name, delta_e |-> de[ill_name]]>> \o rest

RECURSIVE SumDeltaE(_)
SumDeltaE(entries) ==
    IF entries = <<>> THEN 0 ELSE Head(entries).delta_e + SumDeltaE(Tail(entries))

RECURSIVE SumSquaredDeltaE(_)
SumSquaredDeltaE(entries) ==
    IF entries = <<>> THEN 0
    ELSE Head(entries).delta_e * Head(entries).delta_e + SumSquaredDeltaE(Tail(entries))

\* 10 times the sample standard deviation (ddof = 1), 0 for one value
SampleStdTimes10(entries) ==
    LET n == Len(entries)
        a == n * SumSquaredDeltaE(entries) - SumDeltaE(entries) * SumDeltaE(entries)
    IN IF n < 2 THEN 0
       ELSE CHOOSE k \in 0 .. 20 * MaxDeltaE :
              /\ k * k * n * (n - 1) <= 100 * a
              /\ 100 * a < (k + 1) * (k + 1) * n * (n - 1)

\* np.std(values) * 10 for a non-empty list: the population standard
\* deviation, sqrt(mean(x^2) - mean(x)^2), truncated to a tenth
NpStdTimes10(entries) ==
    LET n == Len(entries)
        a == n * SumSquaredDeltaE(entries) - SumDeltaE(entries) * SumDeltaE(entries)
    IN CHOOSE k \in 0 .. 20 * MaxDeltaE :
         /\ k * k * n * n <= 100 * a
         /\ 100 * a < (k + 1) * (k + 1) * n * n

\* worst_case when there is no entry
NoEntry == [is_none |-> TRUE]

\* max(...) keeping the last of several largest entries
RECURSIVE LastMaxEntry(_, _)
LastMaxEntry(best, entries) ==
    IF entries = <<>> THEN best
    ELSE LastMaxEntry(IF Head(entries).delta_e >= best.delta_e THEN Head(entries)
                      ELSE best,
                      Tail(entries))

\* max(results, key=lambda x: x['delta_e']): an entry replaces the best one
\* so far only when its key is strictly larger
RECURSIVE MaxEntry(_, _)
MaxEntry(best, entries) ==
    IF entries = <<>> THEN best
    ELSE MaxEntry(IF Head(entries).delta_e > best.delta_e THEN Head(entries)
                  ELSE best,
                  Tail(entries))

\* compute_metamerism_index(xyz_ref, xyz_test, illuminants) when no
\* computation raises
compute_metamerism_index(a) ==
    LET entries == MetamerismEntries(a.illuminants, a.de, {})
    IN [results          |-> entries,
        metamerism_index |-> IF entries # <<>> THEN NpStdTimes10(entries) ELSE 0,
        worst_case       |-> IF entries # <<>>
                             THEN MaxEntry(Head(entries), Tail(entries))
                             ELSE NoEntry]

\* the metamerism part of run_spectrophotometer_analysis: the entries and
\* the index of spectro_results
spectro_metamerism(a) ==
    LET entries == MetamerismEntries(a.illuminants, a.de, a.failing)
    IN [metamerism       |-> entries,
        metamerism_index |-> IF Len(entries) >= 2 THEN NpStdTimes10(entries) ELSE 0]

\* assess_metamerism_risk with the band limits inside the lower band
RiskBandsInclusive(metamerism_index) ==
    IF metamerism_index <= 10
    THEN [level |-> "LOW", description |-> "Minimal color shift across illuminants",
          color |-> "#27AE60", index |-> metamerism_index]
    ELSE IF metamerism_index <= 30
    THEN [level |-> "MODERATE",
          description |-> "Noticeable color shift under different lighting",
          color |-> "#F39C12", index |-> metamerism_index]
    ELSE [level |-> "HIGH",
          description |-> "Significant color shift - may cause quality issues",
          color |-> "#E74C3C", index |-> metamerism_index]

assess_metamerism_risk(metamerism_index) ==
    IF metamerism_index < 10
    THEN [level |-> "LOW", description |-> "Minimal color shift across illuminants",
          color |-> "#27AE60", index |-> metamerism_index]
    ELSE IF metamerism_index < 30
    THEN [level |-> "MODERATE",
          description |-> "Noticeable color shift under different lighting",
          color |-> "#F39C12", index |-> metamerism_index]
    ELSE [level |-> "HIGH",
          description |-> "Significant color shift - may cause quality issues",
          color |-> "#E74C3C", index |-> metamerism_index]

IsKnownIlluminant(ill_name) == ill_name \in DOMAIN WHITE_POINTS

InitMetamerism ==
    /\ \/ pc = "m_call" /\ args \in MetamerismArgs
       \/ pc = "m_risk_call" /\ args \in RiskArgs
    /\ data = "dict"
    /\ settings = NoSettings
    /\ results = NoResults
    /\ files = {}
    /\ response = NoResponse
    /\ exc = "none"
    /\ raised = {}
    /\ stages = <<>>
    /\ runs = <<>>

\* a listed illuminant of the table for which the computation raises: the
\* exception leaves compute_metamerism_index, which has no handler
ComputeMetamerismIndexRaises ==
    /\ pc = "m_call"
    /\ \E i \in DOMAIN args.illuminants : args.illuminants[i] \in args.failing
    /\ Raise("compute_metamerism_index", "m_raised")
    /\ UNCHANGED <<data, settings, results, files, response, stages, args, runs>>

ComputeMetamerismIndex ==
    /\ pc = "m_call"
    /\ \A i \in DOMAIN args.illuminants : args.illuminants[i] \notin args.failing
    /\ results' = compute_metamerism_index(args)
    /\ pc' = "m_index_returned"
    /\ UNCHANGED <<data, settings, files, response, exc, raised, stages, args, runs>>

\* the loop of run_spectrophotometer_analysis over
\* settings.metamerism_illuminants and the index that follows it
SpectroMetamerism ==
    /\ pc = "m_call"
    /\ results' = spectro_metamerism(args)
    /\ raised' = raised \cup
                   {"compute_metamerism_de" :
                       i \in {j \in DOMAIN args.illuminants :
                                 args.illuminants[j] \in args.failing}}
    /\ pc' = "m_spectro_returned"
    /\ UNCHANGED <<data, settings, files, response, exc, stages, args, runs>>

AssessMetamerismRisk ==
    /\ pc = "m_risk_call"
    /\ results' = assess_metamerism_risk(args.index)
    /\ pc' = "m_risk_returned"
    /\ UNCHANGED <<data, settings, files, response, exc, raised, stages, args, runs>>

NextMetamerism ==
    \/ ComputeMetamerismIndexRaises \/ ComputeMetamerismIndex
    \/ SpectroMetamerism
    \/ AssessMetamerismRisk

SpecMetamerism == InitMetamerism /\ [][NextMetamerism]_vars

(***************************************************************************)
(* xyz_to_lab and lab_to_xyz (app/analysis/color/conversions.py), in exact *)
(* arithmetic on a grid.  The values f(t) are integers in units of 1/87,   *)
(* so that delta = 6/29 is 18 and 4/29 is 12; Lab values are in the same   *)
(* unit.  Normalised values t are integers in units of 1/87^3, so that     *)
(* delta^3 is 18^3 = 5832 and the linear piece t / (3 delta^2) + 4/29 is   *)
(* t / 972 + 12.  XYZ values are in units of 1/87^3 as well.  Rounding of  *)
(* float64 is not part of this model.                                      *)
(***************************************************************************)
delta == 18

FourOver29 == 12

ThreeDeltaSquared == 972

\* t ** 3
Cube(t) == t * t * t

\* t ** (1/3), for the cubes of the grid
CubeRoot(t) == CHOOSE n \in 0 .. MaxF + 1 : Cube(n) = t

\* f_inv selecting its branch at the breakpoint of f, t > delta ** 3
\* (0.77 in units of 1/87, that is t > 0 on the integers), instead of
\* t > delta.
f_inv_cube_breakpoint(t) ==
    IF t > 0 THEN Cube(t) ELSE ThreeDeltaSquared * (t - FourOver29)

f(t) ==
    IF t > Cube(delta) THEN CubeRoot(t) ELSE (t \div ThreeDeltaSquared) + FourOver29

f_inv(t) ==
    IF t > delta THEN Cube(t) ELSE ThreeDeltaSquared * (t - FourOver29)

xyz_to_lab(xyz, wp) ==
    LET xyz_n == [i \in 1 .. 3 |-> xyz[i] \div wp[i]]
        fx == f(xyz_n[1])
        fy == f(xyz_n[2])
        fz == f(xyz_n[3])
    IN <<116 * fy - 16 * 87, 500 * (fx - fy), 200 * (fy - fz)>>

\* the arguments fx, fy, fz that lab_to_xyz hands to f_inv
lab_f(lab) ==
    LET fy == (lab[1] + 16 * 87) \div 116
    IN <<(lab[2] \div 500) + fy, fy, fy - (lab[3] \div 200)>>

lab_to_xyz(lab, wp) ==
    [i \in 1 .. 3 |-> wp[i] * f_inv(lab_f(lab)[i])]

\* Normalised values on both pieces of f: the multiples of 3 delta^2 up to
\* the breakpoint delta^3 (f(t) = 12 .. 18) and cubes above it, the white
\* itself (87^3) and a value above the white among them.
NormalisedValues ==
    {ThreeDeltaSquared * k : k \in 0 .. 6} \cup {Cube(n) : n \in {19, 29, 87, MaxF}}

LabArgs ==
    {[xyz |-> <<WHITE_POINTS[w][1] * t[1], WHITE_POINTS[w][2] * t[2],
                WHITE_POINTS[w][3] * t[3]>>,
      wp |-> WHITE_POINTS[w]] :
        w \in DOMAIN WHITE_POINTS,
        t \in NormalisedValues \X NormalisedValues \X NormalisedValues}

InitLab ==
    /\ pc = "l_call"
    /\ args \in LabArgs
    /\ data = None
    /\ settings = None
    /\ results = NoResults
    /\ files = {}
    /\ response = None
    /\ exc = None
    /\ raised = {}
    /\ stages = <<>>
    /\ runs = <<>>

XyzToLab ==
    /\ pc = "l_call"
    /\ results' = [lab |-> xyz_to_lab(args.xyz, args.wp)]
    /\ pc' = "l_lab"
    /\ UNCHANGED <<data, settings, files, response, exc, raised, stages, args, runs>>

LabToXyz ==
    /\ pc = "l_lab"
    /\ results' = [lab |-> results.lab, xyz |-> lab_to_xyz(results.lab, args.wp)]
    /\ pc' = "l_xyz"
    /\ UNCHANGED <<data, settings, files, response, exc, raised, stages, args, runs>>

NextLab ==
    \/ XyzToLab
    \/ LabToXyz

SpecLab == InitLab /\ [][NextLab]_vars

(***************************************************************************)
(* adapt_white_xyz (app/analysis/color/conversions.py), in exact integer   *)
(* arithmetic.  The Bradford matrix is in units of 1/10000, so cone        *)
(* responses are in units of 1/10000 too; XYZ values and white points are  *)
(* integers.  np.linalg.inv(M) @ w is the u with M @ u = w, looked up      *)
(* among the XYZ values of the grid.  Rounding of float64 is not part of   *)
(* this model.                                                             *)
(***************************************************************************)
BradfordM ==
    <<<< 8951,  2664, -1614>>,
      <<-7502, 17135,   367>>,
      <<  389,  -685, 10296>>>>

\* m @ v
MatVec(m, v) ==
    [i \in 1 .. 3 |-> m[i][1] * v[1] + m[i][2] * v[2] + m[i][3] * v[3]]

\* XYZ values of one pixel
XyzPixels == {0, 20, 100} \X {0, 20, 100} \X {0, 20, 100}

\* the values an adapted pixel can take on the grid
AdaptedPixels == XyzPixels \cup {<<2 * x[1], 2 * x[2], 2 * x[3]>> : x \in XyzPixels}

\* S @ M @ xyz, converted to whole units, in place of M_inv @ S @ M @ xyz
WithoutMInv(w) == [i \in 1 .. 3 |-> w[i] \div 10000]

\* M_inv @ w
ApplyMInv(w) == CHOOSE u \in AdaptedPixels : MatVec(BradfordM, u) = w

\* np.tensordot(xyz, transform.T, axes=([-1], [0])) with
\* transform = M_inv @ S @ M, for an array xyz of pixels
adapt_white_xyz(xyz, src_wp, dst_wp) ==
    LET src_lms == MatVec(BradfordM, src_wp)
        dst_lms == MatVec(BradfordM, dst_wp)
        scale == [j \in 1 .. 3 |-> dst_lms[j] \div src_lms[j]]
    IN [k \in DOMAIN xyz |->
          LET lms == MatVec(BradfordM, xyz[k])
          IN ApplyMInv([j \in 1 .. 3 |-> scale[j] * lms[j]])]

\* a single colour (one pixel) or a row of pixels, a source white point of
\* the table and a destination white point: the same, or twice as bright
AdaptArgs ==
    {[xyz |-> x, src_wp |-> WHITE_POINTS[w],
      dst_wp |-> [j \in 1 .. 3 |-> k * WHITE_POINTS[w][j]]] :
        x \in SeqsUpTo(XyzPixels, MaxPixels) \ {<<>>},
        w \in DOMAIN WHITE_POINTS, k \in {1, 2}}

InitAdapt ==
    /\ pc = "a_call"
    /\ args \in AdaptArgs
    /\ data = None
    /\ settings = None
    /\ results = NoResults
    /\ files = {}
    /\ response = None
    /\ exc = None
    /\ raised = {}
    /\ stages = <<>>
    /\ runs = <<>>

AdaptWhiteXyz ==
    /\ pc = "a_call"
    /\ results' = [xyz |-> adapt_white_xyz(args.xyz, args.src_wp, args.dst_wp)]
    /\ pc' = "a_returned"
    /\ UNCHANGED <<data, settings, files, response, exc, raised, stages, args, runs>>

NextAdapt == AdaptWhiteXyz

SpecAdapt == InitAdapt /\ [][NextAdapt]_vars

(***************************************************************************)
(* The status functions on bounded inputs: determine_status of             *)
(* app/pipeline/runner.py as the Color unit calls it, and determine_status *)
(* and pass_status of app/analysis/pattern/ssim.py.                        *)
(***************************************************************************)

\* app.analysis.pattern.ssim.determine_status
ssim_determine_status(value, pass_threshold, conditional_threshold, lower_is_better) ==
    IF lower_is_better
    THEN IF value < pass_threshold THEN "PASS"
         ELSE IF value <= conditional_threshold THEN "CONDITIONAL"
         ELSE "FAIL"
    ELSE IF value >= pass_threshold THEN "PASS"
         ELSE IF value >= conditional_threshold THEN "CONDITIONAL"
         ELSE "FAIL"

pass_status(mean_de, threshold, conditional) ==
    IF mean_de < threshold THEN "PASS"
    ELSE IF mean_de <= conditional THEN "CONDITIONAL"
    ELSE "FAIL"

\* a value and the two thresholds, in any order of size
StatusArgs ==
    [value : 0 .. MaxDE + 2, pass_threshold : 1 .. MaxDE + 1,
     conditional_threshold : 1 .. MaxDE + 1, lower_is_better : BOOLEAN]

InitStatus ==
    /\ pc = "s_call"
    /\ args \in StatusArgs
    /\ data = None
    /\ settings = None
    /\ results = NoResults
    /\ files = {}
    /\ response = None
    /\ exc = None
    /\ raised = {}
    /\ stages = <<>>
    /\ runs = <<>>

\* app.pipeline.runner.determine_status(value, ...)
RunnerDetermineStatus ==
    /\ pc = "s_call"
    /\ results' = [status |-> determine_status(args.value, args.pass_threshold,
                                               args.conditional_threshold,
                                               args.lower_is_better)]
    /\ pc' = "s_runner_returned"
    /\ UNCHANGED <<data, settings, files, response, exc, raised, stages, args, runs>>

\* app.analysis.pattern.ssim.determine_status(value, ...)
SsimDetermineStatus ==
    /\ pc = "s_call"
    /\ results' = [status |-> ssim_determine_status(args.value, args.pass_threshold,
                                                    args.conditional_threshold,
                                                    args.lower_is_better)]
    /\ pc' = "s_ssim_returned"
    /\ UNCHANGED <<data, settings, files, response, exc, raised, stages, args, runs>>

\* pass_status(mean_de, threshold, conditional)
PassStatus ==
    /\ pc = "s_call"
    /\ results' = [status |-> pass_status(args.value, args.pass_threshold,
                                          args.conditional_threshold)]
    /\ pc' = "s_pass_returned"
    /\ UNCHANGED <<data, settings, files, response, exc, raised, stages, args, runs>>

\* run_comprehensive_color_analysis on images whose mean delta-E 2000 is
\* args.value, with the two cutoffs as settings.delta_e_threshold and
\* settings.delta_e_conditional
ColorUnitStatus ==
    /\ pc = "s_call"
    /\ \E fail \in BodyFailures :
         /\ results' = run_comprehensive_color_analysis(
                           args.value, args.value,
                           [delta_e_threshold   |-> args.pass_threshold,
                            delta_e_conditional |-> args.conditional_threshold],
                           fail)
         /\ raised' = IF fail = "none" THEN raised ELSE raised \cup {"color_body"}
    /\ pc' = "s_color_returned"
    /\ UNCHANGED <<data, settings, files, response, exc, stages, args, runs>>

NextStatus ==
    \/ RunnerDetermineStatus
    \/ SsimDetermineStatus
    \/ PassStatus
    \/ ColorUnitStatus

SpecStatus == InitStatus /\ [][NextStatus]_vars

(* ================================ claims ================================ *)

\* C1: when the repetition unit is enabled, has a result and its status is
\* FAIL, calculate_comprehensive_scores returns REJECT, whatever the scores
\* and the thresholds are.
C1_RepetitionFailVetoes ==
    (/\ pc = "f_returned"
     /\ settings.enable_pattern_repetition
     /\ "pattern_repetition" \in DOMAIN results
     /\ results.pattern_repetition.status = "FAIL")
    => results.decision = "REJECT"

\* C1 witness: a FAIL status rejects a sample whose three scores all reach
\* their thresholds.
C1_Witness ==
    /\ pc = "f_returned"
    /\ settings.enable_pattern_repetition
    /\ "pattern_repetition" \in DOMAIN results
    /\ results.pattern_repetition.status = "FAIL"
    /\ results.color_score >= settings.color_score_threshold
    /\ results.pattern_score >= settings.pattern_score_threshold
    /\ results.overall_score >= settings.overall_score_threshold
    /\ results.decision = "REJECT"

\* C2 (as claimed): with the repetition unit enabled and reporting a status
\* (PASS, CONDITIONAL, FAIL or ERROR), the decision is ACCEPT exactly when
\* color_score >= color_score_threshold, pattern_score >=
\* pattern_score_threshold and the status is PASS.
C2_AcceptOnlyOnPass ==
    (/\ pc = "p_report"
     /\ settings.enable_pattern_repetition
     /\ "pattern_repetition" \in DOMAIN results)
    => (results.decision = "ACCEPT"
        <=> /\ results.color_score >= settings.color_score_threshold
            /\ results.pattern_score >= settings.pattern_score_threshold
            /\ results.pattern_repetition.status = "PASS")

\* C3 (as claimed): when the repetition status is not FAIL and the ACCEPT
\* conditions of C2 do not all hold, the decision is CONDITIONAL ACCEPT if
\* overall_score >= overall_score_threshold or the status is CONDITIONAL,
\* and REJECT otherwise.
C3_ConditionalOrReject ==
    (/\ pc = "p_report"
     /\ settings.enable_pattern_repetition
     /\ "pattern_repetition" \in DOMAIN results
     /\ results.pattern_repetition.status # "FAIL"
     /\ ~(/\ results.color_score >= settings.color_score_threshold
          /\ results.pattern_score >= settings.pattern_score_threshold
          /\ results.pattern_repetition.status = "PASS"))
    => results.decision =
          IF \/ results.overall_score >= settings.overall_score_threshold
             \/ results.pattern_repetition.status = "CONDITIONAL"
          THEN "CONDITIONAL ACCEPT" ELSE "REJECT"

\* C4 (as claimed): a Color or Pattern unit whose exception was caught at
\* its boundary (status ERROR) is scored 0, and the run still yields a
\* decision of the scoring stage.
C4_FailedUnitScoresZero ==
    pc = "p_report"
    => /\ ("color_metrics" \in DOMAIN results
            /\ results.color_metrics.status = "ERROR") => results.color_score = 0
       /\ ("pattern_metrics" \in DOMAIN results
            /\ results.pattern_metrics.status = "ERROR") => results.pattern_score = 0
       /\ results.decision \in {"ACCEPT", "CONDITIONAL ACCEPT", "REJECT"}

C6_ErrorOnlyByEscapeAndTerminal ==
    /\ [](/\ pc = "p_report"
               => results.decision \in {"ACCEPT", "CONDITIONAL ACCEPT", "REJECT"}
          /\ ("decision" \in DOMAIN results /\ results.decision = "ERROR")
               => {"setup", "color_entry", "pattern_entry", "repetition_entry",
                   "spectro_entry", "regional_entry", "scoring",
                   "runner_import"} \cap raised # {}
          /\ ("decision" \in DOMAIN response.body
               /\ response.body.decision = "ERROR")
               => raised \ {"color_body", "pattern_body", "repetition_body",
                            "report", "fallback_pdf_import"} # {})
    /\ [][/\ ("decision" \in DOMAIN results /\ results.decision = "ERROR")
               => /\ stages' = stages
                  /\ results' = results
                  /\ "decision" \in DOMAIN response'.body
                       => response'.body.decision = "ERROR"
          /\ ("decision" \in DOMAIN response.body
              /\ response.body.decision = "ERROR")
               => /\ stages' = stages
                  /\ response'.body.decision = "ERROR"]_vars

\* C6 witness: a request answered with the decision ERROR after the scoring
\* stage raised, the last stage that ran; two units had ended with status
\* ERROR before.
C6_Witness ==
    /\ pc = "done"
    /\ "decision" \in DOMAIN response.body
    /\ response.body.decision = "ERROR"
    /\ "scoring" \in raised
    /\ {"color_body", "pattern_body"} \subseteq raised
    /\ Len(stages) > 0
    /\ stages[Len(stages)] = "scoring"

\* C7: in the results run_analysis_pipeline returns and in the response of
\* analyze, the decision ERROR comes with color_score = 0, pattern_score = 0
\* and overall_score = 0.
C7_ErrorScoresAreZero ==
    /\ (/\ pc \in {"p_return", "r_check", "done"}
         /\ "decision" \in DOMAIN results
         /\ results.decision = "ERROR")
        => /\ {"color_score", "pattern_score", "overall_score"}
                 \subseteq DOMAIN results
           /\ results.color_score = 0
           /\ results.pattern_score = 0
           /\ results.overall_score = 0
    /\ (/\ "decision" \in DOMAIN response.body
         /\ response.body.decision = "ERROR")
        => /\ response.body.color_score = 0
           /\ response.body.pattern_score = 0
           /\ response.body.overall_score = 0

\* C7 witness: the decision logic raised on the overall threshold after the
\* scores were written, and the ERROR response carries three zeros.
C7_Witness ==
    /\ pc = "done"
    /\ "decision" \in DOMAIN response.body
    /\ response.body.decision = "ERROR"
    /\ response.body.color_score = 0
    /\ response.body.pattern_score = 0
    /\ response.body.overall_score = 0
    /\ response.body.error = "scoring"
    /\ settings.ill_typed = {"overall_score_threshold"}
    /\ "color_metrics" \in DOMAIN results
    /\ "mean_de76" \in DOMAIN results.color_metrics

\* C8 (as claimed): no exception leaves analyze, and a finished request has
\* a JSON response (status 200, 400 or 404).
C8_AnalyzeNeverRaises ==
    /\ pc # "raised"
    /\ pc = "done" => response.status \in {200, 400, 404}

\* C9: run_analysis_pipeline always returns: each of its steps leads to a
\* later step of the function, an exception raised in it is caught by its
\* own handler and never reaches analyze, it cannot stop before its return,
\* and on return results['decision'] is ACCEPT, CONDITIONAL ACCEPT, REJECT
\* or ERROR.
C9_PipelineReturnsDecision ==
    /\ [](/\ pc = "p_return"
               => /\ exc = "none"
                  /\ "decision" \in DOMAIN results
                  /\ results.decision \in {"ACCEPT", "CONDITIONAL ACCEPT",
                                            "REJECT", "ERROR"}
          /\ (pc \in {"r_check", "done"} /\ Len(stages) > 0)
               => exc = "none"
          /\ pc \in {"p_setup", "p_color", "p_pattern", "p_repetition",
                      "p_spectro", "p_regional", "p_scoring", "p_report",
                      "p_except", "p_return"} => ENABLED Next)
    /\ [][/\ pc = "p_setup" => pc' \in {"p_color", "p_except"}
          /\ pc = "p_color" => pc' \in {"p_pattern", "p_except"}
          /\ pc = "p_pattern" => pc' \in {"p_repetition", "p_except"}
          /\ pc = "p_repetition" => pc' \in {"p_spectro", "p_except"}
          /\ pc = "p_spectro" => pc' \in {"p_regional", "p_except"}
          /\ pc = "p_regional" => pc' \in {"p_scoring", "p_except"}
          /\ pc = "p_scoring" => pc' \in {"p_report", "p_except"}
          /\ pc = "p_report" => pc' = "p_return"
          /\ pc = "p_except" => pc' = "p_return"
          /\ pc' = "r_check" => pc \in {"r_call", "p_return"}]_vars

\* C9 witness: the function returns the decision ERROR after the Color unit
\* raised before its try block.
C9_Witness ==
    /\ pc = "p_return"
    /\ results.decision = "ERROR"
    /\ results.error = "color_entry"
    /\ exc = "none"

\* C10: with scores in quarter points, mean delta-E in halves and SSIM in
\* hundredths: for an enabled Color unit whose metrics hold mean_de76,
\* color_score = max(0, 100 - mean_de76 * color_score_multiplier); for an
\* enabled Pattern unit whose metrics hold ssim, pattern_score = ssim * 100;
\* and overall_score = (color_score + pattern_score) / 2.
C10_ScoreFormulas ==
    pc = "f_returned"
    => /\ (/\ settings.enable_color_unit
            /\ "color_metrics" \in DOMAIN results
            /\ "mean_de76" \in DOMAIN results.color_metrics)
           => results.color_score =
                 IF 400 - results.color_metrics.mean_de76
                            * settings.color_score_multiplier * 2 >= 0
                 THEN 400 - results.color_metrics.mean_de76
                              * settings.color_score_multiplier * 2
                 ELSE 0
       /\ (/\ settings.enable_pattern_unit
            /\ "pattern_metrics" \in DOMAIN results
            /\ "ssim" \in DOMAIN results.pattern_metrics)
           => results.pattern_score = results.pattern_metrics.ssim * 4
       /\ 2 * results.overall_score = results.color_score + results.pattern_score

\* C10 witness: a mean delta-E 76 of 0.5, which differs from the mean
\* delta-E 2000, with multiplier 10 and SSIM 0.96 give the scores 95, 96 and
\* 95.5.
C10_Witness ==
    /\ pc = "f_returned"
    /\ settings.enable_color_unit
    /\ settings.enable_pattern_unit
    /\ settings.color_score_multiplier = 10
    /\ "color_metrics" \in DOMAIN results
    /\ "mean_de76" \in DOMAIN results.color_metrics
    /\ results.color_metrics.mean_de76 = 1
    /\ results.color_metrics.mean_de2000 # 1
    /\ "pattern_metrics" \in DOMAIN results
    /\ "ssim" \in DOMAIN results.pattern_metrics
    /\ results.pattern_metrics.ssim = 96
    /\ results.color_score = 380
    /\ results.pattern_score = 384
    /\ results.overall_score = 382

\* C11: for a mean delta-E 76 >= 0, a color_score_multiplier >= 0 and an SSIM
\* in [0, 1] (absent metrics taking the defaults of the code), and for every
\* combination of enabled units, the color_score, pattern_score and
\* overall_score that calculate_comprehensive_scores writes lie in 0 .. 100
\* (0 .. 400 quarter points), also when the decision logic raises after
\* they were written.
C11_ScoresInRange ==
    (/\ pc \in {"f_returned", "f_raised"}
     /\ "color_score" \in DOMAIN results
     /\ settings.color_score_multiplier >= 0
     /\ ("color_metrics" \in DOMAIN results
         /\ "mean_de76" \in DOMAIN results.color_metrics)
           => results.color_metrics.mean_de76 >= 0
     /\ ("pattern_metrics" \in DOMAIN results
         /\ "ssim" \in DOMAIN results.pattern_metrics)
           => results.pattern_metrics.ssim \in 0 .. 100)
    => /\ results.color_score \in 0 .. 400
       /\ results.pattern_score \in 0 .. 400
       /\ results.overall_score \in 0 .. 400

\* C11 witness: 100 - mean_de76 * multiplier is negative (1.0 * 250) and the
\* color score written is 0, next to a pattern score of 100.
C11_Witness ==
    /\ pc = "f_returned"
    /\ settings.enable_color_unit
    /\ "color_metrics" \in DOMAIN results
    /\ "mean_de76" \in DOMAIN results.color_metrics
    /\ 400 - results.color_metrics.mean_de76 * settings.color_score_multiplier * 2 < 0
    /\ results.color_score = 0
    /\ results.pattern_score = 400
    /\ results.overall_score = 200

\* C12: within one run the units are entered in the order Color, Pattern,
\* Repetition, each at most once and only if enabled; the scoring stage is
\* entered at most once, after all of them, and only when every enabled unit
\* has been entered and has returned (with its result, possibly of status
\* ERROR, stored in results).
C12_StageOrder ==
    /\ \A i \in DOMAIN stages : \A j \in DOMAIN stages :
          /\ (i # j /\ stages[i] \in {"color", "pattern", "repetition", "scoring"})
                => stages[i] # stages[j]
          /\ (i < j /\ stages[i] = "pattern") => stages[j] # "color"
          /\ (i < j /\ stages[i] = "repetition")
                => stages[j] \notin {"color", "pattern"}
          /\ (i < j /\ stages[i] = "scoring")
                => stages[j] \notin {"color", "pattern", "repetition"}
    /\ \A i \in DOMAIN stages :
          /\ stages[i] = "color" => settings.enable_color_unit
          /\ stages[i] = "pattern" => settings.enable_pattern_unit
          /\ stages[i] = "repetition" => settings.enable_pattern_repetition
          /\ stages[i] = "scoring"
                => /\ settings.enable_color_unit
                        => /\ \E j \in 1 .. (i - 1) : stages[j] = "color"
                           /\ "color_metrics" \in DOMAIN results
                   /\ settings.enable_pattern_unit
                        => /\ \E j \in 1 .. (i - 1) : stages[j] = "pattern"
                           /\ "pattern_metrics" \in DOMAIN results
                   /\ settings.enable_pattern_repetition
                        => /\ \E j \in 1 .. (i - 1) : stages[j] = "repetition"
                           /\ "pattern_repetition" \in DOMAIN results

\* C12 witness: the three units ran in order, the Pattern unit degraded to
\* ERROR, and scoring followed.
C12_Witness ==
    /\ pc = "p_report"
    /\ stages = <<"setup", "color", "pattern", "repetition", "regional", "scoring">>
    /\ results.color_metrics.status = "PASS"
    /\ results.pattern_metrics.status = "ERROR"
    /\ results.pattern_repetition.status = "CONDITIONAL"

\* C13: when the enabled units are called in any order, their bodies and
\* the storing of their results interleaved in any way, and scoring follows
\* the join, the color_score, pattern_score, overall_score and decision are
\* those of the sequential pass Color, Pattern, Repetition on the same
\* images and settings; and each unit's result is the one it has in the
\* sequential pass.
C13_OrderIndependent ==
    pc = "o_returned"
    => LET seq == SequentialOutcome(args, settings)
       IN /\ results.color_score = seq.color_score
          /\ results.pattern_score = seq.pattern_score
          /\ results.overall_score = seq.overall_score
          /\ results.decision = seq.decision
          /\ seq.decision # "ERROR"
               => \A k \in {"color_metrics", "pattern_metrics", "pattern_repetition"} :
                     /\ k \in DOMAIN results <=> k \in DOMAIN seq
                     /\ k \in DOMAIN results => results[k] = seq[k]

\* C13 witness: the three units ran in the order Repetition, Pattern, Color
\* with the Pattern body overlapping the other two, and a decision was
\* computed.
C13_Witness ==
    /\ pc = "o_returned"
    /\ Len(stages) >= 4
    /\ SubSeq(stages, 1, 4) = <<"repetition", "pattern", "repetition_returned", "color">>
    /\ results.decision \in {"ACCEPT", "CONDITIONAL ACCEPT", "REJECT"}
    /\ results.color_score < 400

C15_SettingsUnchanged ==
    [][(pc \in {"p_setup", "p_color", "p_pattern", "p_repetition", "p_spectro",
                "p_regional", "p_scoring", "p_report", "p_except", "p_return"})
         => settings' = settings]_vars

\* C15 witness: a run that went through the three units, raised in the
\* decision logic and returned through the handler.
C15_Witness ==
    /\ pc = "p_return"
    /\ results.decision = "ERROR"
    /\ results.error = "scoring"
    /\ settings.enable_color_unit
    /\ settings.enable_pattern_unit
    /\ settings.enable_pattern_repetition
    /\ settings.enable_spectrophotometer
    /\ settings \in RequestSettings

\* C16: compute_metamerism_index and the loop of
\* run_spectrophotometer_analysis pass over every listed name that is not in
\* the white-point table: such a name never makes them raise or stop, and
\* when no computation for a listed illuminant fails, the entries are the
\* names of the table in the list, in list order with repetitions, each
\* with the delta-E of its illuminant.
C16_UnknownIlluminantsSkipped ==
    /\ pc = "m_raised"
         => \E i \in DOMAIN args.illuminants : args.illuminants[i] \in args.failing
    /\ pc = "m_index_returned"
         => /\ Len(results.results)
                 = Len(SelectSeq(args.illuminants, IsKnownIlluminant))
            /\ \A i \in DOMAIN results.results :
                  /\ results.results[i].illuminant
                        = SelectSeq(args.illuminants, IsKnownIlluminant)[i]
                  /\ results.results[i].delta_e
                        = args.de[results.results[i].illuminant]
    /\ (/\ pc = "m_spectro_returned"
         /\ \A i \in DOMAIN args.illuminants : args.illuminants[i] \notin args.failing)
         => /\ Len(results.metamerism)
                 = Len(SelectSeq(args.illuminants, IsKnownIlluminant))
            /\ \A i \in DOMAIN results.metamerism :
                  /\ results.metamerism[i].illuminant
                        = SelectSeq(args.illuminants, IsKnownIlluminant)[i]
                  /\ results.metamerism[i].delta_e
                        = args.de[results.metamerism[i].illuminant]

\* C16 witness: an unknown name at the head of the list and one between two
\* known names; the entries are those of the two known names, in order.
C16_Witness ==
    /\ pc = "m_index_returned"
    /\ args.illuminants = <<"TL84", "UV", "D65">>
    /\ Len(results.results) = 2
    /\ results.results[1].illuminant = "TL84"
    /\ results.results[2].illuminant = "D65"

\* C17: in compute_metamerism_index and in run_spectrophotometer_analysis
\* the metamerism index is 0 when fewer than two illuminants yielded a
\* delta-E, and otherwise 10 times the population standard deviation of the
\* delta-E values of the entries (here truncated to a tenth: the index k with
\* (k n)^2 <= 100 (n sum(x^2) - sum(x)^2) < ((k + 1) n)^2).
C17_MetamerismIndex ==
    pc \in {"m_index_returned", "m_spectro_returned"}
    => LET entries == IF pc = "m_index_returned" THEN results.results
                      ELSE results.metamerism
           n == Len(entries)
           a == n * SumSquaredDeltaE(entries) - SumDeltaE(entries) * SumDeltaE(entries)
           k == results.metamerism_index
       IN IF n < 2 THEN k = 0
          ELSE /\ k >= 0
               /\ k * k * n * n <= 100 * a
               /\ 100 * a < (k + 1) * (k + 1) * n * n

\* C17 witness: three illuminants with the delta-E values 0.0, 0.0 and 0.6
\* give the index 2.8 (population deviation 0.283; the sample deviation
\* would give 3.4).
C17_Witness ==
    /\ pc = "m_spectro_returned"
    /\ Len(results.metamerism) = 3
    /\ results.metamerism[1].delta_e = 0
    /\ results.metamerism[2].delta_e = 0
    /\ results.metamerism[3].delta_e = 6
    /\ results.metamerism_index = 28

\* C18: the worst case compute_metamerism_index reports is the entry with
\* the largest delta-E, the first of them in list order when several entries
\* share it, and is absent when there is no entry.
C18_WorstCaseFirstMaximum ==
    pc = "m_index_returned"
    => IF results.results = <<>> THEN results.worst_case = [is_none |-> TRUE]
       ELSE \E i \in DOMAIN results.results :
              /\ results.worst_case = results.results[i]
              /\ \A j \in DOMAIN results.results :
                    /\ results.results[j].delta_e <= results.results[i].delta_e
                    /\ j < i => results.results[j].delta_e < results.results[i].delta_e

\* C18 witness: A and D65 share the largest delta-E and A, listed first, is
\* the worst case.
C18_Witness ==
    /\ pc = "m_index_returned"
    /\ args.illuminants = <<"TL84", "A", "D65">>
    /\ args.de["A"] = args.de["D65"]
    /\ args.de["TL84"] < args.de["A"]
    /\ results.worst_case.illuminant = "A"

\* C19: assess_metamerism_risk puts an index below 1.0 in the band LOW, an
\* index from 1.0 to below 3.0 in MODERATE and an index of 3.0 or more in
\* HIGH, and the description and the colour it returns are those of the
\* band, whatever the index in the band.
C19_RiskBands ==
    pc = "m_risk_returned"
    => /\ results.index = args.index
       /\ args.index < 10 => results.level = "LOW"
       /\ (10 <= args.index /\ args.index < 30) => results.level = "MODERATE"
       /\ args.index >= 30 => results.level = "HIGH"
       /\ results.level = "LOW"
            => /\ results.description = "Minimal color shift across illuminants"
               /\ results.color = "#27AE60"
       /\ results.level = "MODERATE"
            => /\ results.description
                     = "Noticeable color shift under different lighting"
               /\ results.color = "#F39C12"
       /\ results.level = "HIGH"
            => /\ results.description
                     = "Significant color shift - may cause quality issues"
               /\ results.color = "#E74C3C"

\* C19 witness: the index 3.0 itself is classified HIGH.
C19_Witness ==
    /\ pc = "m_risk_returned"
    /\ args.index = 30
    /\ results.level = "HIGH"
    /\ results.color = "#E74C3C"

\* C20: lab_to_xyz(xyz_to_lab(xyz, wp), wp) gives back xyz for every white
\* point, and lab_to_xyz takes the cube branch of its inverse for exactly the
\* components that xyz_to_lab sent through the cube-root branch
\* (t > (6/29)^3), the linear branch for the others, the breakpoint itself
\* included.
C20_LabRoundTrip ==
    pc = "l_xyz"
    => /\ results.xyz = args.xyz
       /\ \A i \in 1 .. 3 :
            (args.xyz[i] \div args.wp[i] > Cube(delta)) <=> (lab_f(results.lab)[i] > delta)

\* C20 witness: X at the breakpoint, Y just above it and Z below it come
\* back from the round trip.
C20_Witness ==
    /\ pc = "l_xyz"
    /\ args.xyz[1] = args.wp[1] * Cube(delta)
    /\ args.xyz[2] = args.wp[2] * Cube(delta + 1)
    /\ args.xyz[3] = args.wp[3] * ThreeDeltaSquared
    /\ results.lab = <<116 * (delta + 1) - 16 * 87, -500, 200 * (delta + 1 - 13)>>
    /\ results.xyz = args.xyz

\* C21: adapt_white_xyz(XYZ, W, W) = XYZ for a single colour and for an
\* array of pixels, for every white point W of the table: adapting from a
\* white point to the same white point changes nothing.
C21_AdaptationIdentity ==
    (pc = "a_returned" /\ args.dst_wp = args.src_wp) => results.xyz = args.xyz

\* C21 witness: a two-pixel array adapted from illuminant A to illuminant A
\* came back as it was.
C21_Witness ==
    /\ pc = "a_returned"
    /\ args.src_wp = WHITE_POINTS["A"]
    /\ args.dst_wp = args.src_wp
    /\ args.xyz = <<<<100, 20, 0>>, <<20, 100, 100>>>>
    /\ results.xyz = args.xyz

\* C22: when its body runs without an exception, the Color unit's status is
\* PASS for a mean delta-E 2000 below delta_e_threshold, CONDITIONAL for a
\* mean not below delta_e_threshold and at most delta_e_conditional, and FAIL
\* for a mean above delta_e_conditional (delta_e_threshold <=
\* delta_e_conditional); a mean equal to either cutoff is CONDITIONAL.
C22_ColorStatus ==
    (/\ pc = "s_color_returned"
     /\ "color_body" \notin raised
     /\ args.pass_threshold <= args.conditional_threshold)
    => /\ {"status", "mean_de2000"} \subseteq DOMAIN results
       /\ results.mean_de2000 = args.value
       /\ results.status = "PASS" <=> results.mean_de2000 < args.pass_threshold
       /\ results.status = "CONDITIONAL"
            <=> /\ results.mean_de2000 >= args.pass_threshold
                /\ results.mean_de2000 <= args.conditional_threshold
       /\ results.status = "FAIL" <=> results.mean_de2000 > args.conditional_threshold

\* C22 witness: a mean equal to delta_e_threshold, below delta_e_conditional,
\* is CONDITIONAL.
C22_Witness ==
    /\ pc = "s_color_returned"
    /\ "color_body" \notin raised
    /\ args.value = args.pass_threshold
    /\ args.pass_threshold < args.conditional_threshold
    /\ results.status = "CONDITIONAL"

\* C30: app.pipeline.runner.determine_status and
\* app.analysis.pattern.ssim.determine_status return the same status for
\* every value, both thresholds and both settings of lower_is_better, a value
\* equal to a threshold included, and with lower_is_better = True both return
\* what pass_status returns.
C30_StatusFunctionsAgree ==
    /\ pc = "s_runner_returned"
         => results.status = ssim_determine_status(args.value, args.pass_threshold,
                                                   args.conditional_threshold,
                                                   args.lower_is_better)
    /\ (pc \in {"s_runner_returned", "s_ssim_returned"} /\ args.lower_is_better)
         => results.status = pass_status(args.value, args.pass_threshold,
                                         args.conditional_threshold)

\* C23: when the try block of the repetition unit ran without an
\* exception, the unit's status is PASS iff d <= t, CONDITIONAL iff
\* t < d <= 2t and FAIL iff d > 2t, for d = |count_ref - count_test| and
\* t = pattern_count_tolerance; a connected-component analysis that failed
\* internally takes part with the count 0.
C23_RepetitionStatus ==
    (/\ "pattern_repetition" \in DOMAIN results
     /\ "repetition_body" \notin raised)
    => LET r == results.pattern_repetition
           t == settings.pattern_count_tolerance
       IN /\ {"status", "count_ref", "count_test", "count_diff"} \subseteq DOMAIN r
          /\ r.count_diff = Abs(r.count_ref - r.count_test)
          /\ r.status = "PASS" <=> r.count_diff <= t
          /\ r.status = "CONDITIONAL" <=> (t < r.count_diff /\ r.count_diff <= 2 * t)
          /\ r.status = "FAIL" <=> r.count_diff > 2 * t

\* C23 witness: a difference of exactly twice the tolerance is CONDITIONAL.
C23_Witness ==
    /\ pc = "p_spectro"
    /\ "pattern_repetition" \in DOMAIN results
    /\ "repetition_body" \notin raised
    /\ settings.pattern_count_tolerance = 1
    /\ results.pattern_repetition.count_diff = 2
    /\ results.pattern_repetition.status = "CONDITIONAL"

\* C24: with the repetition unit enabled, a difference of the pattern
\* counts above twice pattern_count_tolerance makes run_analysis_pipeline
\* return REJECT (or ERROR after a pipeline-level failure): no later failure
\* inside the repetition unit takes the FAIL of the counts away.
C24_CountFailRejects ==
    (/\ pc = "p_return"
     /\ settings.enable_pattern_repetition
     /\ "pattern_repetition" \in DOMAIN results
     /\ "count_diff" \in DOMAIN results.pattern_repetition
     /\ results.pattern_repetition.count_diff > 2 * settings.pattern_count_tolerance)
    => Get(results, "decision", None) \in {"REJECT", "ERROR"}

\* C25: for fixed thresholds and a fixed repetition status the decision of
\* calculate_comprehensive_scores is monotone in the scores: scores that are
\* at least as high (every whole number of points up to 100) give a decision
\* at least as favourable, in the order REJECT < CONDITIONAL ACCEPT < ACCEPT.
C25_DecisionMonotone ==
    (pc = "f_returned" /\ {"decision", "color_score", "pattern_score"} \subseteq DOMAIN results)
    => LET rank == [d \in {"REJECT", "CONDITIONAL ACCEPT", "ACCEPT"} |->
                       CASE d = "REJECT" -> 0
                         [] d = "CONDITIONAL ACCEPT" -> 1
                         [] d = "ACCEPT" -> 2]
           ok   == PatternRepOk(results, settings)
           cond == PatternRepConditional(results, settings)
           points == {4 * k : k \in 0 .. 100}
       IN \A c \in {x \in points : x >= results.color_score},
             p \in {x \in points : x >= results.pattern_score} :
             rank[Decide(c, p, OverallScore(c, p), ok, cond, settings)]
                >= rank[results.decision]

\* C25 witness: a run decided CONDITIONAL ACCEPT with a colour score below its
\* threshold, where higher scores reach ACCEPT.
C25_Witness ==
    /\ pc = "f_returned"
    /\ results.decision = "CONDITIONAL ACCEPT"
    /\ results.color_score < settings.color_score_threshold
    /\ results.pattern_score < FullScore
    /\ Decide(FullScore, FullScore, FullScore, PatternRepOk(results, settings),
              PatternRepConditional(results, settings), settings) = "ACCEPT"

\* C26: the scores and the decision of calculate_comprehensive_scores do not
\* depend on the status of the Color unit or of the Pattern unit: the same
\* call with any of PASS, CONDITIONAL, FAIL, ERROR in color_metrics['status']
\* and in pattern_metrics['status'], everything else equal, returns the same
\* scores and the same decision.
C26_UnitStatusIgnored ==
    (pc = "f_returned"
     /\ {"decision", "color_score", "pattern_score", "overall_score"}
           \subseteq DOMAIN results)
    => \A sc \in {"PASS", "CONDITIONAL", "FAIL", "ERROR"},
          sp \in {"PASS", "CONDITIONAL", "FAIL", "ERROR"} :
          LET with_c == IF "color_metrics" \in DOMAIN results
                        THEN Put(results, "color_metrics",
                                 Put(results.color_metrics, "status", sc))
                        ELSE results
              with_p == IF "pattern_metrics" \in DOMAIN with_c
                        THEN Put(with_c, "pattern_metrics",
                                 Put(with_c.pattern_metrics, "status", sp))
                        ELSE with_c
              out == calculate_comprehensive_scores(with_p, settings)
          IN /\ ~out.raises
             /\ out.results.decision = results.decision
             /\ out.results.color_score = results.color_score
             /\ out.results.pattern_score = results.pattern_score
             /\ out.results.overall_score = results.overall_score

\* C26 witness: both units are counted, the Pattern unit's status is PASS and
\* the Color unit's status is PASS, and the run is rejected on its colour
\* score all the same.
C26_Witness ==
    /\ pc = "f_returned"
    /\ ColorCounted(results, settings)
    /\ PatternCounted(results, settings)
    /\ Get(results.color_metrics, "status", None) = "PASS"
    /\ Get(results.pattern_metrics, "status", None) = "PASS"
    /\ results.color_score = 0
    /\ results.decision = "REJECT"

\* C27: a disabled unit counts as a perfect result, whatever data of that
\* unit results holds: color_score is 100 with the Color unit disabled,
\* pattern_score is 100 with the Pattern unit disabled, a disabled repetition
\* unit neither vetoes nor forces CONDITIONAL ACCEPT, and with all three
\* disabled the decision is ACCEPT when both score thresholds are at most 100.
C27_DisabledUnitIsPerfect ==
    (pc = "f_returned"
     /\ {"decision", "color_score", "pattern_score", "overall_score"}
           \subseteq DOMAIN results)
    => /\ ~settings.enable_color_unit => results.color_score = FullScore
       /\ ~settings.enable_pattern_unit => results.pattern_score = FullScore
       /\ ~settings.enable_pattern_repetition
            => results.decision
                 = Decide(results.color_score, results.pattern_score,
                          results.overall_score, TRUE, FALSE, settings)
       /\ (/\ ~settings.enable_color_unit
           /\ ~settings.enable_pattern_unit
           /\ ~settings.enable_pattern_repetition
           /\ settings.color_score_threshold <= FullScore
           /\ settings.pattern_score_threshold <= FullScore)
            => results.decision = "ACCEPT"

\* C27 witness: all three units are disabled while results holds a colour
\* difference, an SSIM of 0 and a repetition status FAIL of theirs, and the
\* decision is ACCEPT with both scores 100.
C27_Witness ==
    /\ pc = "f_returned"
    /\ ~settings.enable_color_unit
    /\ ~settings.enable_pattern_unit
    /\ ~settings.enable_pattern_repetition
    /\ {"color_metrics", "pattern_metrics", "pattern_repetition"} \subseteq DOMAIN results
    /\ Get(results.color_metrics, "mean_de76", 0) = MaxDE
    /\ Get(results.pattern_metrics, "ssim", DefaultSsim) = 0
    /\ Get(results.pattern_repetition, "status", None) = "FAIL"
    /\ results.color_score = FullScore
    /\ results.pattern_score = FullScore
    /\ results.decision = "ACCEPT"

\* C28: a failure of report generation never changes the verdict: the
\* report step of run_analysis_pipeline, the fallback to create_simple_report
\* included, leaves decision, color_score, pattern_score and overall_score as
\* scoring computed them, and the response of analyze carries the same four
\* values whether the fallback PDF could be created or not.
C28_ReportFailureKeepsVerdict ==
    [][/\ (pc = "p_report")
          => /\ {"decision", "color_score", "pattern_score", "overall_score"}
                   \subseteq (DOMAIN results \cap DOMAIN results')
             /\ results'.decision = results.decision
             /\ results'.color_score = results.color_score
             /\ results'.pattern_score = results.pattern_score
             /\ results'.overall_score = results.overall_score
       /\ (pc = "r_check" /\ ~IsError(results))
          => /\ results' = results
             /\ response'.body.decision = Get(results, "decision", "N/A")
             /\ response'.body.color_score = Score(results, "color_score")
             /\ response'.body.pattern_score = Score(results, "pattern_score")
             /\ response'.body.overall_score = Score(results, "overall_score")]_vars

\* C28 witness: the report failed, the text report could not be written and
\* the fallback PDF failed too, and the response carries the ACCEPT and the
\* scores of the run.
C28_Witness ==
    /\ pc = "done"
    /\ "report" \in raised
    /\ "fallback_pdf_import" \in raised
    /\ "decision" \in DOMAIN results
    /\ results.decision = "ACCEPT"
    /\ response.body.decision = "ACCEPT"
    /\ response.body.color_score = results.color_score
    /\ response.body.pdf_filename = "report_unavailable.pdf"

\* C29: whenever run_analysis_pipeline returns, results['error'] is not None
\* exactly when results['decision'] is ERROR: failures inside a unit and
\* failures of report generation leave the error field None, and the
\* pipeline-level handler sets both.
C29_ErrorFieldIffErrorDecision ==
    pc = "p_return"
    => (Get(results, "error", None) # None <=> Get(results, "decision", None) = "ERROR")

\* C29 witness: a run in which a unit failed internally and report generation
\* failed returns with a decision other than ERROR and error None.
C29_Witness ==
    /\ pc = "p_return"
    /\ "report" \in raised
    /\ "repetition_body" \in raised
    /\ Get(results, "error", "absent") = None
    /\ Get(results, "decision", None) \in {"ACCEPT", "CONDITIONAL ACCEPT", "REJECT"}

====
